---- MODULE Spec2Model ----
(***************************************************************************)
(* A model of the goatbass fretless-bass instrument: the voice registry of *)
(* services/AudioEngine.ts and the touch reconciliation and demand         *)
(* resolver of components/Fretboard.tsx.                                    *)
(*                                                                         *)
(* Numbers.  The source computes in floating point; the model computes in  *)
(* exact fixed point.  A semitone offset is an integer count of            *)
(* 1/SemiUnit semitones, a horizontal or vertical position is an integer   *)
(* count of CSS pixels.  A frequency base(i) * 2^(s/12) is kept as the     *)
(* pair <<i, u>> of the string index and the offset u above the string's   *)
(* base in 1/SemiUnit semitones; the source only ever compares two         *)
(* frequencies of the same string.                                         *)
(***************************************************************************)
EXTENDS Integers, Sequences, FiniteSets, TLC

VARIABLES
    ctx,              \* AudioEngine.ctx is set (the engine is initialized)
    activeNodes,      \* AudioEngine.activeNodes: key -> voice
    connected,        \* the voice objects whose nodes are connected to the graph
    releaseTimers,    \* pending window.setTimeout closures of stopNote, by their voice
    killTimers,       \* pending setTimeout closures of killNoteImmediate, by their voice
    settings,         \* AudioEngine.settings (the fields isMonophonic and volume)
    phaserFilters,    \* AudioEngine.phaserFilters.length
    isMonophonic,     \* settings.isMonophonic
    hasStarted,       \* App: the splash screen is gone
    isMenuOpen,       \* App state isMenuOpen, mirrored by Fretboard's isMenuOpenRef
    touchesRef,       \* Fretboard touchesRef: Map<number, TouchData> in insertion order
    activeNoteIdsRef, \* Fretboard activeNoteIdsRef: key -> {touchId, freq, stringIndex}
    isMouseDownRef,   \* Fretboard isMouseDownRef
    contacts,         \* environment: the fingers on the surface (their identifiers)
    now,              \* environment: Date.now() in ms
    lastCmds,         \* observation: the engine calls made by the last handler
    lastTick          \* observation: what the last handler saw, if it was a resolver tick

vars == <<ctx, activeNodes, connected, releaseTimers, killTimers, settings,
          phaserFilters, isMonophonic,
          hasStarted, isMenuOpen, touchesRef, activeNoteIdsRef, isMouseDownRef,
          contacts, now, lastCmds, lastTick>>

engineVars == <<ctx, activeNodes, connected, releaseTimers, killTimers, settings,
                phaserFilters>>
boardVars == <<touchesRef, activeNoteIdsRef, isMouseDownRef>>

(***************************************************************************)
(* Bounds of the model.                                                    *)
(***************************************************************************)
MaxTimers == 2      \* timer closures pending at once, engine driven directly
MaxAppTimers == 1   \* timer closures pending at once, engine driven by the app
MaxTime == 61       \* the clock stops advancing here
TimeStep == 61      \* the clock advances in steps of this many ms

(***************************************************************************)
(* Program constants.                                                      *)
(***************************************************************************)
MOUSE_ID == 88888
NUT_WIDTH_PERCENT == 8
TUNE_DELAY == 60
OpenString == -999          \* the open-string sentinel, in semitones
FretCount == 12             \* settings.fretCount (semitoneRange), the default
StringCount == 6            \* settings.stringCount, currentTuning.length, the default

\* The surface: el.getBoundingClientRect() and window.innerWidth.
Rect == [left |-> 0, top |-> 0, width |-> 300, height |-> 240]
Window == [innerWidth |-> 300]

\* Fixed point: SemiUnit units make one semitone, chosen as twice the number
\* of pixels a semitone takes on the surface, so that every pixel position
\* and every midpoint of two pixel positions is a whole number of units.
SemiUnit == 2 * ((Rect.width * (100 - NUT_WIDTH_PERCENT)) \div (100 * FretCount))
Sentinel == OpenString * SemiUnit

TouchIds == {1}
TwoTouchIds == {1, 2}
PointerIds == TouchIds \cup {MOUSE_ID}

StringKey(i) == <<"string", i>>
TouchKey(id) == <<"touch", id>>
Keys == {StringKey(i) : i \in 0..(StringCount - 1)}
            \cup {TouchKey(id) : id \in PointerIds \cup TwoTouchIds}
NoKey == <<"none", 0>>
NoFreq == <<-1, 0>>

(***************************************************************************)
(* The voice registry of AudioEngine.                                      *)
(*                                                                         *)
(* A voice object is identified by <<key, n>>: the key it was created      *)
(* under and a number n that no other voice object of that key which is    *)
(* still referenced (by the registry or by a pending timer closure) or     *)
(* still connected carries.  The registry entry of a key holds the number  *)
(* and the fields of the voice that are read while it is registered.       *)
(*                                                                         *)
(* The engine state is handled as a record E so that one handler can make  *)
(* several calls in sequence: ctx, activeNodes, connected, releaseTimers,  *)
(* killTimers, settings, phaserFilters as the variables, cmds: the calls   *)
(* made so far (and the timeouts they scheduled), cap: the                 *)
(* number of timer closures that may be pending when the handler returns,  *)
(* ok: FALSE once a call found no number left for a new voice object.      *)
(***************************************************************************)
NoTick == [ran |-> FALSE, wanted |-> <<>>, tracked |-> {}]

\* A key has at most one registered voice and one more per pending timer.
VoiceNumbers == 1..((IF MaxTimers > MaxAppTimers THEN MaxTimers ELSE MaxAppTimers) + 1)

Engine(cap) ==
    [ctx |-> ctx, activeNodes |-> activeNodes, connected |-> connected,
     releaseTimers |-> releaseTimers, killTimers |-> killTimers,
     settings |-> settings, phaserFilters |-> phaserFilters,
     cmds |-> {}, cap |-> cap, ok |-> TRUE]

MapSet(m, k, v) == [x \in DOMAIN m \cup {k} |-> IF x = k THEN v ELSE m[x]]
MapDelete(m, k) == [x \in DOMAIN m \ {k} |-> m[x]]

Logged(E, op, key, freq) == [E EXCEPT !.cmds = @ \cup {<<op, key, freq>>}]

\* The voice object registered under a key.
NodeOf(nodes, noteId) == <<noteId, nodes[noteId].node>>

\* isNotePlaying: the key has a voice and the voice is not fading out.
isNotePlaying(E, noteId) ==
    /\ noteId \in DOMAIN E.activeNodes
    /\ ~E.activeNodes[noteId].isReleasing

\* Times are in ms after the call.  Levels are in percent.
MinRelease == 50        \* Math.max(0.05, settings.release)
StopMargin == 100       \* source.stop(now + release + 0.1)
CleanupMargin == 200    \* window.setTimeout(..., (release + 0.2) * 1000)
KillTimeConstant == 10  \* gain.setTargetAtTime(0, now, 0.01)
KillStop == 50          \* source.stop(now + 0.05)
KillDisconnect == 100   \* setTimeout(..., 100)

\* A frequency one octave up and one octave down.
Double(f) == <<f[1], f[2] + 12 * SemiUnit>>
Half(f) == <<f[1], f[2] - 12 * SemiUnit>>

PlayFreq(s, frequency) == IF s.octaveShift THEN Double(frequency) ELSE frequency

Oscillator(isOctave, frequency) ==
    [kind |-> "OscillatorNode", isOctave |-> isOctave, frequency |-> frequency]

BufferSource(loop) ==
    [kind |-> "AudioBufferSourceNode", isOctave |-> FALSE, loop |-> loop]

\* The array sources of startNote: body, sub, character, noise, pluck and
\* octave source, in the order of the pushes.  isOctave of the sub
\* oscillator is never assigned; FALSE stands for undefined.  The buffers
\* exist once init has run.
VoiceSources(s, playFreq) ==
    <<Oscillator(FALSE, playFreq)>>
        \o (IF s.subLevel > 1 THEN <<Oscillator(FALSE, Half(playFreq))>> ELSE <<>>)
        \o <<Oscillator(FALSE, playFreq)>>
        \o (IF s.noiseLevel > 1 THEN <<BufferSource(TRUE)>> ELSE <<>>)
        \o <<BufferSource(FALSE)>>
        \o (IF s.octavePedal THEN <<Oscillator(TRUE, Double(playFreq))>> ELSE <<>>)

\* The places in sources of the oscillators whose detune startNote connects
\* to vibratoGain: the body, the character and the octave oscillator.  The
\* sub oscillator is started without that connection.
VibratoTargets(s) ==
    {1, IF s.subLevel > 1 THEN 3 ELSE 2}
        \cup (IF s.octavePedal THEN {Len(VoiceSources(s, <<0, 0>>))} ELSE {})

\* The entry startNote registers.
NewVoice(s, n, frequency) ==
    [node |-> n, baseFreq |-> PlayFreq(s, frequency), isReleasing |-> FALSE,
     sources |-> VoiceSources(s, PlayFreq(s, frequency)),
     vibrato |-> VibratoTargets(s)]

IsOscillator(source) == source.kind = "OscillatorNode"

\* The retuning of updateNotePitch that treats the octave source as the others.
Retuned_noOctave(voice, s, frequency) ==
    LET playFreq == PlayFreq(s, frequency)
        sources == voice.sources
    IN [voice EXCEPT
           !.sources = [i \in DOMAIN sources |->
                           IF IsOscillator(sources[i])
                           THEN [sources[i] EXCEPT !.frequency = playFreq]
                           ELSE sources[i]],
           !.baseFreq = playFreq]

\* The body of updateNotePitch: the target of every oscillator and baseFreq.
Retuned(voice, s, frequency) ==
    LET playFreq == PlayFreq(s, frequency)
        sources == voice.sources
    IN [voice EXCEPT
           !.sources = [i \in DOMAIN sources |->
                           IF IsOscillator(sources[i])
                           THEN [sources[i] EXCEPT !.frequency =
                                    IF sources[i].isOctave THEN Double(playFreq)
                                    ELSE playFreq]
                           ELSE sources[i]],
           !.baseFreq = playFreq]

\* A time of the schedule of a voice (source 0: the voice's gain or timer).
At(i, ms) == <<i, ms>>

\* The release schedule with the sources stopped at the end of the ramp.
StopSchedule_noMargin(voice, noteId, s) ==
    LET release == IF s.release > MinRelease THEN s.release ELSE MinRelease IN
    {<<"gain.exponentialRampToValueAtTime", noteId, At(0, release)>>,
     <<"window.setTimeout", noteId, At(0, release + CleanupMargin)>>}
        \cup {<<"source.stop", noteId, At(i, release)>> :
                  i \in DOMAIN voice.sources}

\* What stopNote schedules: the end of the gain ramp, the stop of every
\* source (each is an OscillatorNode or an AudioBufferSourceNode) and the
\* cleanup closure.
StopSchedule(voice, noteId, s) ==
    LET release == IF s.release > MinRelease THEN s.release ELSE MinRelease IN
    {<<"gain.exponentialRampToValueAtTime", noteId, At(0, release)>>,
     <<"window.setTimeout", noteId, At(0, release + CleanupMargin)>>}
        \cup {<<"source.stop", noteId, At(i, release + StopMargin)>> :
                  i \in DOMAIN voice.sources}

\* The kill schedule with every source stopped.
KillSchedule_allSources(voice, noteId) ==
    {<<"gain.setTargetAtTime", noteId, At(0, KillTimeConstant)>>,
     <<"setTimeout", noteId, At(0, KillDisconnect)>>}
        \cup {<<"source.stop", noteId, At(i, KillStop)>> :
                  i \in DOMAIN voice.sources}

\* What killNoteImmediate schedules: the fade, the stop of the oscillators
\* and the disconnect closure.
KillSchedule(voice, noteId) ==
    {<<"gain.setTargetAtTime", noteId, At(0, KillTimeConstant)>>,
     <<"setTimeout", noteId, At(0, KillDisconnect)>>}
        \cup {<<"source.stop", noteId, At(i, KillStop)>> :
                  i \in {j \in DOMAIN voice.sources : IsOscillator(voice.sources[j])}}

Oscillators(voice) ==
    {i \in DOMAIN voice.sources : IsOscillator(voice.sources[i])}

\* vibratoGain.disconnect(source.detune) over the oscillators of a voice
\* with the exception of a missing connection left to propagate: the loop
\* ends at the first oscillator that was not connected.
DetachVibrato_noCatch(voice) ==
    LET missing == Oscillators(voice) \ voice.vibrato IN
    IF missing = {}
    THEN [links |-> {}, caught |-> {}, threw |-> FALSE,
          upTo |-> Len(voice.sources)]
    ELSE LET first == CHOOSE i \in missing : \A j \in missing : i <= j IN
         [links |-> {i \in voice.vibrato : i > first}, caught |-> {},
          threw |-> TRUE, upTo |-> first]

\* try { vibratoGain.disconnect(source.detune) } catch (e) {} over the
\* oscillators of a voice: every connection is removed, and the exception
\* of an oscillator that was not connected is caught, so the loop reaches
\* the last source.
DetachVibrato(voice) ==
    [links |-> voice.vibrato \ Oscillators(voice),
     caught |-> Oscillators(voice) \ voice.vibrato,
     threw |-> FALSE, upTo |-> Len(voice.sources)]

\* The disconnect calls that returned or whose exception was caught
\* (second component 1).
DetachCalls(voice, d, noteId) ==
    {<<"vibratoGain.disconnect", noteId, At(i, IF i \in d.caught THEN 1 ELSE 0)>> :
        i \in {j \in Oscillators(voice) :
                  j <= d.upTo /\ (d.threw => j < d.upTo)}}

\* killNoteImmediate: drop the entry at once, disconnect 100 ms later.
killNoteImmediate(E0, noteId) ==
    LET E == Logged(E0, "kill", noteId, NoFreq) IN
    IF ~E.ctx THEN E
    ELSE IF noteId \notin DOMAIN E.activeNodes THEN E
    ELSE LET node == NodeOf(E.activeNodes, noteId)
             voice == E.activeNodes[noteId]
             d == DetachVibrato(voice)
         IN [E EXCEPT !.activeNodes = MapDelete(@, noteId),
                      !.killTimers = IF d.threw THEN @ ELSE @ \cup {node},
                      !.cmds = @ \cup {c \in KillSchedule(voice, noteId) :
                                          d.threw => /\ c[1] # "setTimeout"
                                                     /\ c[3][1] <= d.upTo}
                                 \cup DetachCalls(voice, d, noteId)]

\* The numbers a new voice object of the key can carry.
FreshNumbers(E, noteId) ==
    {n \in VoiceNumbers :
        /\ <<noteId, n>> \notin E.connected \cup E.releaseTimers \cup E.killTimers
        /\ noteId \in DOMAIN E.activeNodes => E.activeNodes[noteId].node # n}

\* startNote without the kill of lines 396-398.
startNote_noKill(E0, noteId, frequency) ==
    LET E1 == Logged(E0, "start", noteId, frequency) IN
    IF ~E1.ctx THEN E1
    ELSE LET fresh == FreshNumbers(E1, noteId)
         IN IF fresh = {} THEN [E1 EXCEPT !.ok = FALSE]
            ELSE LET n == CHOOSE v \in fresh : \A w \in fresh : v <= w
                 IN [E1 EXCEPT !.connected = @ \cup {<<noteId, n>>},
                               !.activeNodes = MapSet(@, noteId,
                                    NewVoice(E1.settings, n, frequency))]

\* startNote without the test of the context of line 392.
startNote_noCtx(E0, noteId, frequency) ==
    LET E1 == Logged(E0, "start", noteId, frequency)
        E2 == IF noteId \in DOMAIN E1.activeNodes
              THEN killNoteImmediate(E1, noteId)
              ELSE E1
        fresh == FreshNumbers(E2, noteId)
    IN IF fresh = {} THEN [E2 EXCEPT !.ok = FALSE]
       ELSE LET n == CHOOSE v \in fresh : \A w \in fresh : v <= w
            IN [E2 EXCEPT !.connected = @ \cup {<<noteId, n>>},
                          !.activeNodes = MapSet(@, noteId,
                               NewVoice(E1.settings, n, frequency))]

\* startNote: kill whatever the key holds, then build and register a voice.
startNote(E0, noteId, frequency) ==
    LET E1 == Logged(E0, "start", noteId, frequency) IN
    IF ~E1.ctx THEN E1
    ELSE LET E2 == IF noteId \in DOMAIN E1.activeNodes
                   THEN killNoteImmediate(E1, noteId)
                   ELSE E1
             fresh == FreshNumbers(E2, noteId)
         IN IF fresh = {} THEN [E2 EXCEPT !.ok = FALSE]
            ELSE LET n == CHOOSE v \in fresh : \A w \in fresh : v <= w
                 IN [E2 EXCEPT !.connected = @ \cup {<<noteId, n>>},
                               !.activeNodes = MapSet(@, noteId,
                                    NewVoice(E1.settings, n, frequency))]

\* updateNotePitch that starts a voice for a key it does not find.
updateNotePitch_orStart(E0, noteId, frequency) ==
    LET E == Logged(E0, "update", noteId, frequency) IN
    IF ~E.ctx THEN E
    ELSE IF noteId \notin DOMAIN E.activeNodes THEN startNote(E, noteId, frequency)
    ELSE IF ~E.activeNodes[noteId].isReleasing
         THEN [E EXCEPT !.activeNodes[noteId] = Retuned(@, E.settings, frequency)]
         ELSE E

\* updateNotePitch: glide a voice that is present and not fading out.
updateNotePitch(E0, noteId, frequency) ==
    LET E == Logged(E0, "update", noteId, frequency) IN
    IF ~E.ctx THEN E
    ELSE IF noteId \in DOMAIN E.activeNodes
            /\ ~E.activeNodes[noteId].isReleasing
         THEN [E EXCEPT !.activeNodes[noteId] = Retuned(@, E.settings, frequency)]
         ELSE E

\* stopNote that schedules the cleanup but leaves isReleasing alone.
stopNote_noMark(E0, noteId) ==
    LET E == Logged(E0, "stop", noteId, NoFreq) IN
    IF ~E.ctx THEN E
    ELSE IF noteId \in DOMAIN E.activeNodes
            /\ ~E.activeNodes[noteId].isReleasing
         THEN [E EXCEPT !.releaseTimers = @ \cup {NodeOf(E.activeNodes, noteId)},
                        !.cmds = @ \cup StopSchedule(E.activeNodes[noteId], noteId,
                                                     E.settings)]
         ELSE E

\* stopNote that marks the voice but schedules no cleanup.
stopNote_noTimer(E0, noteId) ==
    LET E == Logged(E0, "stop", noteId, NoFreq) IN
    IF ~E.ctx THEN E
    ELSE IF noteId \in DOMAIN E.activeNodes
            /\ ~E.activeNodes[noteId].isReleasing
         THEN [E EXCEPT !.activeNodes[noteId].isReleasing = TRUE]
         ELSE E

\* stopNote without the test of isReleasing.
stopNote_again(E0, noteId) ==
    LET E == Logged(E0, "stop", noteId, NoFreq) IN
    IF ~E.ctx THEN E
    ELSE IF noteId \in DOMAIN E.activeNodes
         THEN [E EXCEPT !.activeNodes[noteId].isReleasing = TRUE,
                        !.releaseTimers = @ \cup {NodeOf(E.activeNodes, noteId)},
                        !.cmds = @ \cup StopSchedule(E.activeNodes[noteId], noteId,
                                                     E.settings)]
         ELSE E

\* stopNote: mark the voice releasing and schedule its deferred cleanup.
stopNote(E0, noteId) ==
    LET E == Logged(E0, "stop", noteId, NoFreq) IN
    IF ~E.ctx THEN E
    ELSE IF noteId \in DOMAIN E.activeNodes
            /\ ~E.activeNodes[noteId].isReleasing
         THEN LET voice == E.activeNodes[noteId]
                  d == DetachVibrato(voice)
              IN [E EXCEPT
                     !.activeNodes[noteId] =
                         [voice EXCEPT !.isReleasing = TRUE, !.vibrato = d.links],
                     !.releaseTimers =
                         IF d.threw THEN @
                         ELSE @ \cup {NodeOf(E.activeNodes, noteId)},
                     !.cmds = @ \cup {c \in StopSchedule(voice, noteId, E.settings) :
                                         d.threw => /\ c[1] # "window.setTimeout"
                                                    /\ c[3][1] <= d.upTo}
                                \cup DetachCalls(voice, d, noteId)]
         ELSE E

\* The closure without the identity comparison of line 606.
releaseTimerFires_noCompare(nodes, conn, node) ==
    LET noteId == node[1] IN
    [activeNodes |-> MapDelete(nodes, noteId), connected |-> conn \ {node}]

\* The closure stopNote passed to window.setTimeout: compare and drop.
\* The result is [activeNodes, connected].
releaseTimerFires(nodes, conn, node) ==
    LET noteId == node[1] IN
    IF noteId \in DOMAIN nodes /\ NodeOf(nodes, noteId) = node
    THEN [activeNodes |-> MapDelete(nodes, noteId), connected |-> conn \ {node}]
    ELSE [activeNodes |-> nodes, connected |-> conn]

\* The closure killNoteImmediate passed to setTimeout: disconnect.
killTimerFires(conn, node) == conn \ {node}

\* Voice objects are only ever compared for identity, so the numbers of the
\* objects of a key that are still alive are kept as 1, 2, ... in the order of
\* their creation (startNote gives a new object the next number).
LiveNumbers(nodes, conn, rts, kts, noteId) ==
    {n \in VoiceNumbers :
        \/ <<noteId, n>> \in conn \cup rts \cup kts
        \/ noteId \in DOMAIN nodes /\ nodes[noteId].node = n}

Rank(live, n) == Cardinality({m \in live : m <= n})

RenumberSet(S, nodes, conn, rts, kts) ==
    {<<t[1], Rank(LiveNumbers(nodes, conn, rts, kts, t[1]), t[2])>> : t \in S}

RenumberNodes(nodes, conn, rts, kts) ==
    [k \in DOMAIN nodes |->
        [nodes[k] EXCEPT !.node = Rank(LiveNumbers(nodes, conn, rts, kts, k), @)]]

SetRegistry(nodes, conn, rts, kts) ==
    /\ activeNodes' = RenumberNodes(nodes, conn, rts, kts)
    /\ connected' = RenumberSet(conn, nodes, conn, rts, kts)
    /\ releaseTimers' = RenumberSet(rts, nodes, conn, rts, kts)
    /\ killTimers' = RenumberSet(kts, nodes, conn, rts, kts)

SetEngine(E) ==
    /\ E.ok
    /\ Cardinality(E.releaseTimers) + Cardinality(E.killTimers) <= E.cap
    /\ ctx' = E.ctx
    /\ settings' = E.settings
    /\ phaserFilters' = E.phaserFilters
    /\ SetRegistry(E.activeNodes, E.connected, E.releaseTimers, E.killTimers)
    /\ lastCmds' = E.cmds

\* A pending closure of stopNote for the key runs.
ReleaseTimerFor(noteId) ==
    \E t \in releaseTimers :
        LET r == releaseTimerFires(activeNodes, connected, t) IN
        /\ t[1] = noteId
        /\ SetRegistry(r.activeNodes, r.connected, releaseTimers \ {t}, killTimers)
        /\ lastCmds' = {<<IF r.activeNodes # activeNodes THEN "cleanup" ELSE "staleTimer",
                          noteId, NoFreq>>}
        /\ lastTick' = NoTick
        /\ UNCHANGED <<ctx, settings, phaserFilters, isMonophonic, hasStarted,
                       isMenuOpen, boardVars, contacts, now>>

ReleaseTimer == \E noteId \in Keys : ReleaseTimerFor(noteId)

KillTimer ==
    \E t \in killTimers :
        /\ SetRegistry(activeNodes, killTimerFires(connected, t), releaseTimers,
                       killTimers \ {t})
        /\ lastCmds' = {}
        /\ lastTick' = NoTick
        /\ UNCHANGED <<ctx, settings, phaserFilters, isMonophonic, hasStarted,
                       isMenuOpen, boardVars, contacts, now>>

(***************************************************************************)
(* The engine driven through its public methods by an arbitrary caller.    *)
(***************************************************************************)
ApiKeys == {StringKey(0), TouchKey(1)}
ApiFreqs == {<<0, 0>>, <<0, SemiUnit>>}

restOfApp == <<isMonophonic, hasStarted, isMenuOpen, boardVars, contacts, now,
               lastTick>>

\* The settings the engine and the app start with, and the other values the
\* model draws for them.
DefaultSettings ==
    [isMonophonic |-> FALSE, volume |-> 85, release |-> 200, subLevel |-> 0,
     noiseLevel |-> 10, octavePedal |-> FALSE, octaveShift |-> FALSE,
     delayFeedback |-> 30]
SettingValues ==
    [isMonophonic : BOOLEAN, volume : {85, 50}, release : {200}, subLevel : {0},
     noiseLevel : {10}, octavePedal : {FALSE}, octaveShift : {FALSE},
     delayFeedback : {30}]
PartialSettings ==
    {[f \in {} |-> 0]}
        \cup {[isMonophonic |-> b] : b \in BOOLEAN}
        \cup {[volume |-> v] : v \in {85, 50}}
        \cup SettingValues

\* The number of allpass stages init pushes on phaserFilters.
PhaserStages == 4

\* init without the test of line 102.
init_unguarded(E0) ==
    LET E == Logged(E0, "init", NoKey, NoFreq) IN
    [E EXCEPT !.ctx = TRUE, !.phaserFilters = @ + PhaserStages]

\* init: builds the context and the graph unless they exist.
init(E0) ==
    LET E == Logged(E0, "init", NoKey, NoFreq) IN
    IF E.ctx THEN E
    ELSE [E EXCEPT !.ctx = TRUE, !.phaserFilters = @ + PhaserStages]

\* updateSettings: merge the new fields, then retune the graph if it exists.
updateSettings(E, newSettings) ==
    [E EXCEPT !.settings = [f \in DOMAIN @ |->
                               IF f \in DOMAIN newSettings THEN newSettings[f] ELSE @[f]]]

\* The part of updateSettings after the test of ctx, for the delay loop:
\* the target of the gain of delayFeedbackNode (in percent) and the time
\* constant (in ms) of setTargetAtTime.
applySettings(E) ==
    IF E.ctx
    THEN Logged(E, "delayFeedbackNode.gain.setTargetAtTime", NoKey,
                <<E.settings.delayFeedback, 100>>)
    ELSE E

\* resume and checkState: ask a suspended context to resume; the running
\* state of the context is not part of the model.
resume(E) == E

checkState(E) == E

ApiInit ==
    /\ SetEngine(init(Engine(MaxTimers)))
    /\ UNCHANGED restOfApp

ApiUpdateSettings ==
    \E newSettings \in PartialSettings :
        /\ SetEngine(updateSettings(Engine(MaxTimers), newSettings))
        /\ UNCHANGED restOfApp

ApiResume ==
    /\ SetEngine(resume(Engine(MaxTimers)))
    /\ UNCHANGED restOfApp

ApiCheckState ==
    /\ SetEngine(checkState(Engine(MaxTimers)))
    /\ UNCHANGED restOfApp

ApiStartNote ==
    \E k \in ApiKeys, f \in ApiFreqs :
        /\ SetEngine(startNote(Engine(MaxTimers), k, f))
        /\ UNCHANGED restOfApp

ApiUpdateNotePitch ==
    \E k \in ApiKeys, f \in ApiFreqs :
        /\ SetEngine(updateNotePitch(Engine(MaxTimers), k, f))
        /\ UNCHANGED restOfApp

ApiStopNote ==
    \E k \in ApiKeys :
        /\ SetEngine(stopNote(Engine(MaxTimers), k))
        /\ UNCHANGED restOfApp

ApiKillNoteImmediate ==
    \E k \in ApiKeys :
        /\ SetEngine(killNoteImmediate(Engine(MaxTimers), k))
        /\ UNCHANGED restOfApp

(***************************************************************************)
(* Fretboard: geometry.                                                    *)
(***************************************************************************)
\* The samples the model draws: clientX and clientY of a touch and of the mouse.
XSamples == {10, 26, 47}
YSamples == {60}
MouseXSamples == {47}
MouseYSamples == {60}

Abs(x) == IF x < 0 THEN -x ELSE x
Max(a, b) == IF a > b THEN a ELSE b
Min(a, b) == IF a < b THEN a ELSE b

getVerticalPadding == IF Window.innerWidth >= 768 THEN 56 ELSE 40

\* getRawStringPos as the fraction num/den of a lane.
getRawStringPos(clientY, tuningLength) ==
    LET padding == getVerticalPadding
        playableHeight == Rect.height - (padding * 2)
        adjustedY == (clientY - Rect.top) - padding
    IN IF playableHeight <= 0 THEN [num |-> 0, den |-> 1]
       ELSE [num |-> adjustedY * tuningLength, den |-> playableHeight]

Floor(q) == q.num \div q.den

getStringIndexFromY(clientY) ==
    LET index == Floor(getRawStringPos(clientY, StringCount))
    IN Max(0, Min(StringCount - 1, index))

\* calculateRawSemitones, in 1/SemiUnit semitones; the division is exact for
\* the surface and the samples of the model.
calculateRawSemitones(clientX) ==
    LET relativeX == clientX - Rect.left IN
    IF relativeX * 100 < NUT_WIDTH_PERCENT * Rect.width THEN Sentinel
    ELSE ((relativeX * 100 - NUT_WIDTH_PERCENT * Rect.width) * FretCount * SemiUnit)
            \div ((100 - NUT_WIDTH_PERCENT) * Rect.width)

\* A frequency computation that treats the sentinel as an offset.
calculateFreqFromSemitones_noSentinel(stringIndex, semitones) ==
    <<stringIndex, semitones>>

\* calculateFreqFromSemitones: base(stringIndex) * 2^(semitones/12), the base
\* itself for the open string.
calculateFreqFromSemitones(stringIndex, semitones) ==
    IF semitones = Sentinel THEN <<stringIndex, 0>>
    ELSE <<stringIndex, semitones>>

\* Math.ceil of an offset, as an offset.
Ceil(semitones) == ((semitones + SemiUnit - 1) \div SemiUnit) * SemiUnit

\* The whole semitone nearest to an offset (Math.round), as an offset.
Round(semitones) == ((2 * semitones + SemiUnit) \div (2 * SemiUnit)) * SemiUnit

\* Math.abs(f1 - f2) > 0.01 (and > 0.001) for two frequencies of one string:
\* one unit of offset is at least 23.12 * (2^(1/(12*SemiUnit)) - 1) = 0.029 Hz
\* on every string of the pool, so the frequencies are that far apart
\* exactly when they are different.
FreqMoved(f1, f2) == f1 # f2

(***************************************************************************)
(* Fretboard: estimateVelocity.  Forces and the sensitivity are in         *)
(* thousandths, radii in px.  A raw force is in units of 1/RawUnit and a   *)
(* velocity in units of 1/(1000 * RawUnit), which makes every value of the *)
(* function a whole number.  A number passed as input is the record        *)
(* [number |-> n]; a Touch is a record of its six fields, each a number or *)
(* Undefined.                                                              *)
(***************************************************************************)
Undefined == -1
MinRadius == 8          \* const minR = 8
MaxRadius == 40         \* const maxR = 40
DefaultRadius == 15     \* input.radiusX || input.webkitRadiusX || 15
MouseForce == 800       \* processInput(MOUSE_ID, e.clientX, e.clientY, 0.8, rect)
RawUnit == 1000 * 2 * (MaxRadius - MinRadius)

\* a || b || c of JavaScript on numbers: undefined and 0 are falsy.
OrElse(a, b, c) ==
    IF a # Undefined /\ a # 0 THEN a
    ELSE IF b # Undefined /\ b # 0 THEN b ELSE c

\* rawForce of a Touch that reports a radius.
RadiusForce(rX, rY) ==
    LET twice == 2 * (MaxRadius - MinRadius)
        over == (rX + rY) - 2 * MinRadius      \* (avgRadius - minR) * 2
        normalized == Max(0, Min(twice, over))  \* in units of 1/twice
    IN (3 * RawUnit) \div 10 + (7 * RawUnit * normalized) \div (10 * twice)

rawForce(input) ==
    IF "number" \in DOMAIN input THEN (input.number * RawUnit) \div 1000
    ELSE IF input.force # Undefined /\ input.force > 0
         THEN (input.force * RawUnit) \div 1000
    ELSE IF input.webkitForce # Undefined /\ input.webkitForce > 0
         THEN (Min(input.webkitForce, 1000) * RawUnit) \div 1000
    ELSE IF input.radiusX # Undefined \/ input.webkitRadiusX # Undefined
         THEN RadiusForce(OrElse(input.radiusX, input.webkitRadiusX, DefaultRadius),
                          OrElse(input.radiusY, input.webkitRadiusY, DefaultRadius))
    ELSE RawUnit

\* estimateVelocity without the clamp.
estimateVelocity_unclamped(input, sensitivity) ==
    rawForce(input) * sensitivity + (1000 - sensitivity) * RawUnit

estimateVelocity(input, sensitivity) ==
    LET scaledVelocity == rawForce(input) * sensitivity
                              + (1000 - sensitivity) * RawUnit
    IN Max(400 * RawUnit, Min(1000 * RawUnit, scaledVelocity))

(***************************************************************************)
(* Fretboard: processInput.  The Map touchesRef is a sequence of TouchData *)
(* records in insertion order.  noteId, velocity and xPercent do not reach *)
(* the registry or the resolver's decisions and are left out.              *)
(***************************************************************************)
IndexOf(ts, id) ==
    IF \E i \in 1..Len(ts) : ts[i].touchId = id
    THEN CHOOSE i \in 1..Len(ts) : ts[i].touchId = id
    ELSE 0

SeqDelete(ts, id) == SelectSeq(ts, LAMBDA t : t.touchId # id)

\* Smoothing that always takes the midpoint.
Smoothed_always(rawSemitones, previous) == (rawSemitones + previous) \div 2

\* Smoothing that never damps.
Smoothed_never(rawSemitones, previous) == rawSemitones

\* smoothedSemitones: alpha is 1.0 when the offset moved by more than 0.1
\* semitone and 0.5 otherwise.
Smoothed(rawSemitones, previous) ==
    IF Abs(rawSemitones - previous) * 10 > SemiUnit THEN rawSemitones
    ELSE (rawSemitones + previous) \div 2

\* A string choice that follows the lane of the sample.
NewStringIndex_noBand(rawPosition, current) ==
    Max(0, Min(StringCount - 1, Floor(rawPosition)))

\* A string choice that does not clamp.
NewStringIndex_noClamp(rawPosition, current) ==
    IF rawPosition.num * 4 > (4 * current + 5) * rawPosition.den
    THEN Floor(rawPosition)
    ELSE IF rawPosition.num * 4 < (4 * current - 1) * rawPosition.den
         THEN Floor(rawPosition)
         ELSE current

\* newStringIndex: the string of an existing pointer after a sample at lane
\* position rawPosition, which leaves the string beyond current + 1.25 and
\* before current - 0.25.
NewStringIndex(rawPosition, current) ==
    LET moved == IF rawPosition.num * 4 > (4 * current + 5) * rawPosition.den
                 THEN Floor(rawPosition)
                 ELSE IF rawPosition.num * 4 < (4 * current - 1) * rawPosition.den
                      THEN Floor(rawPosition)
                      ELSE current
    IN Max(0, Min(StringCount - 1, moved))

\* The result is [ok, touches]; ok is FALSE when the smoothed offset is not a
\* whole number of units (the precision of the model is exhausted).
processInput(ts, id, clientX, clientY, t) ==
    LET stringIndex == getStringIndexFromY(clientY)
        rawSemitones == calculateRawSemitones(clientX)
        idx == IndexOf(ts, id)
    IN
    IF idx = 0
    THEN \* new input
         LET startOffset == IF rawSemitones # Sentinel
                            THEN Ceil(rawSemitones) - rawSemitones ELSE 0
             finalSemitones == IF rawSemitones = Sentinel THEN Sentinel
                               ELSE rawSemitones + startOffset
             freq == calculateFreqFromSemitones(stringIndex, finalSemitones)
         IN [ok |-> TRUE,
             touches |-> Append(ts, [touchId |-> id, stringIndex |-> stringIndex,
                                     freq |-> freq, startOffset |-> startOffset,
                                     lastMove |-> t, isTuned |-> FALSE,
                                     rawSemitones |-> rawSemitones])]
    ELSE \* update existing
         LET existing == ts[idx]
             delta == Abs(rawSemitones - existing.rawSemitones)
             fast == delta * 10 > SemiUnit
             sum == rawSemitones + existing.rawSemitones
             smoothedSemitones == Smoothed(rawSemitones, existing.rawSemitones)
             exact == fast \/ sum % 2 = 0
             rawPosition == getRawStringPos(clientY, StringCount)
             newStringIndex == NewStringIndex(rawPosition, existing.stringIndex)
         IN
         IF existing.stringIndex # newStringIndex
         THEN \* string change
              LET newStartOffset == IF smoothedSemitones # Sentinel
                                    THEN Ceil(smoothedSemitones) - smoothedSemitones
                                    ELSE 0
                  finalSemitones == IF smoothedSemitones = Sentinel THEN Sentinel
                                    ELSE smoothedSemitones + newStartOffset
                  freq == calculateFreqFromSemitones(newStringIndex, finalSemitones)
              IN [ok |-> exact,
                  touches |-> [ts EXCEPT ![idx] =
                      [existing EXCEPT !.stringIndex = newStringIndex,
                                       !.freq = freq,
                                       !.startOffset = newStartOffset,
                                       !.rawSemitones = smoothedSemitones,
                                       !.lastMove = t,
                                       !.isTuned = FALSE]]]
         ELSE \* slide
              LET finalSemitones == IF smoothedSemitones = Sentinel THEN Sentinel
                                    ELSE smoothedSemitones + existing.startOffset
                  freq == calculateFreqFromSemitones(newStringIndex, finalSemitones)
              IN [ok |-> exact,
                  touches |-> [ts EXCEPT ![idx] =
                      [existing EXCEPT !.freq = IF FreqMoved(existing.freq, freq)
                                                THEN freq ELSE @,
                                       !.rawSemitones = smoothedSemitones,
                                       !.lastMove = t,
                                       !.isTuned = FALSE]]]

(***************************************************************************)
(* Fretboard: syncAudioEngine, the resolver.                               *)
(***************************************************************************)
\* The comparison value of a pointer: the open string counts as -1 semitone.
Semi(touch) == IF touch.rawSemitones = Sentinel THEN -SemiUnit
               ELSE touch.rawSemitones

\* The arbitration with >= for > at line 239: the last of equals wins.
RECURSIVE WinnerFrom_lastWins(_, _, _, _)
WinnerFrom_lastWins(ts, i, n, winner) ==
    IF n > Len(ts) THEN winner
    ELSE IF ts[n].stringIndex = i
         THEN IF winner = 0 THEN WinnerFrom_lastWins(ts, i, n + 1, n)
              ELSE IF Semi(ts[n]) >= Semi(ts[winner])
                   THEN WinnerFrom_lastWins(ts, i, n + 1, n)
                   ELSE WinnerFrom_lastWins(ts, i, n + 1, winner)
         ELSE WinnerFrom_lastWins(ts, i, n + 1, winner)

\* The inner loop of the monophonic arbitration over touchesRef.values(),
\* from position n on, with the winner so far (0: none yet).
RECURSIVE WinnerFrom(_, _, _, _)
WinnerFrom(ts, i, n, winner) ==
    IF n > Len(ts) THEN winner
    ELSE IF ts[n].stringIndex = i
         THEN IF winner = 0 THEN WinnerFrom(ts, i, n + 1, n)
              ELSE IF Semi(ts[n]) > Semi(ts[winner])
                   THEN WinnerFrom(ts, i, n + 1, n)
                   ELSE WinnerFrom(ts, i, n + 1, winner)
         ELSE WinnerFrom(ts, i, n + 1, winner)

\* wantedNotes of monophonic mode, strings i..StringCount-1, as a sequence of
\* <<key, TouchData>> in insertion order.
RECURSIVE MonoWanted(_, _)
MonoWanted(ts, i) ==
    IF i >= StringCount THEN <<>>
    ELSE LET winner == WinnerFrom(ts, i, 1, 0) IN
         (IF winner # 0 THEN <<<<StringKey(i), ts[winner]>>>> ELSE <<>>)
            \o MonoWanted(ts, i + 1)

\* The polyphonic demand keyed by string instead of by pointer.
PolyWanted_byString(ts) ==
    [n \in 1..Len(ts) |-> <<StringKey(ts[n].stringIndex), ts[n]>>]

PolyWanted(ts) == [n \in 1..Len(ts) |-> <<TouchKey(ts[n].touchId), ts[n]>>]

WantedNotes(ts, mono) == IF mono THEN MonoWanted(ts, 0) ELSE PolyWanted(ts)

WantedKeys(wanted) == {wanted[n][1] : n \in 1..Len(wanted)}

\* Step 2 with killNoteImmediate for stopNote.
RECURSIVE StopUnwanted_kill(_, _, _)
StopUnwanted_kill(S, keys, wantedKeys) ==
    IF keys = {} THEN S
    ELSE LET activeKey == CHOOSE k \in keys : TRUE
             S1 == IF activeKey \notin wantedKeys
                   THEN [E |-> killNoteImmediate(S.E, activeKey),
                         active |-> MapDelete(S.active, activeKey)]
                   ELSE S
         IN StopUnwanted_kill(S1, keys \ {activeKey}, wantedKeys)

\* Step 2: stop the tracked keys that are not wanted.  S is the state
\* [E, active]; the calls for different keys do not depend on their order.
RECURSIVE StopUnwanted(_, _, _)
StopUnwanted(S, keys, wantedKeys) ==
    IF keys = {} THEN S
    ELSE LET activeKey == CHOOSE k \in keys : TRUE
             S1 == IF activeKey \notin wantedKeys
                   THEN [E |-> stopNote(S.E, activeKey),
                         active |-> MapDelete(S.active, activeKey)]
                   ELSE S
         IN StopUnwanted(S1, keys \ {activeKey}, wantedKeys)

Tracked(data) == [touchId |-> data.touchId, freq |-> data.freq,
                  stringIndex |-> data.stringIndex]

\* Step 3 that glides a tracked key whatever pointer or string holds it.
StartOrUpdateOne_glide(S, wantedKey, data) ==
    IF wantedKey \in DOMAIN S.active
    THEN LET activeData == S.active[wantedKey]
             moved == FreqMoved(activeData.freq, data.freq)
             E1 == IF moved
                   THEN updateNotePitch(S.E, wantedKey, data.freq)
                   ELSE S.E
             active1 == IF moved
                        THEN [S.active EXCEPT ![wantedKey].freq = data.freq]
                        ELSE S.active
             E2 == IF ~isNotePlaying(E1, wantedKey)
                   THEN startNote(E1, wantedKey, data.freq)
                   ELSE E1
         IN [E |-> E2, active |-> active1]
    ELSE [E |-> startNote(S.E, wantedKey, data.freq),
          active |-> MapSet(S.active, wantedKey, Tracked(data))]

\* Step 3 that calls updateNotePitch without comparing the frequencies.
StartOrUpdateOne_noThreshold(S, wantedKey, data) ==
    IF wantedKey \in DOMAIN S.active
    THEN LET activeData == S.active[wantedKey] IN
         IF activeData.touchId # data.touchId
            \/ activeData.stringIndex # data.stringIndex
         THEN [E |-> startNote(S.E, wantedKey, data.freq),
               active |-> MapSet(S.active, wantedKey, Tracked(data))]
         ELSE LET E1 == updateNotePitch(S.E, wantedKey, data.freq)
                  active1 == [S.active EXCEPT ![wantedKey].freq = data.freq]
                  E2 == IF ~isNotePlaying(E1, wantedKey)
                        THEN startNote(E1, wantedKey, data.freq)
                        ELSE E1
              IN [E |-> E2, active |-> active1]
    ELSE [E |-> startNote(S.E, wantedKey, data.freq),
          active |-> MapSet(S.active, wantedKey, Tracked(data))]

\* Step 3 that glides only for a pointer that an input event has just moved.
StartOrUpdateOne_movingOnly(S, wantedKey, data) ==
    IF wantedKey \in DOMAIN S.active
    THEN LET activeData == S.active[wantedKey] IN
         IF activeData.touchId # data.touchId
            \/ activeData.stringIndex # data.stringIndex
         THEN [E |-> startNote(S.E, wantedKey, data.freq),
               active |-> MapSet(S.active, wantedKey, Tracked(data))]
         ELSE LET moved == FreqMoved(activeData.freq, data.freq) /\ ~data.isTuned
                  E1 == IF moved
                        THEN updateNotePitch(S.E, wantedKey, data.freq)
                        ELSE S.E
                  active1 == IF moved
                             THEN [S.active EXCEPT ![wantedKey].freq = data.freq]
                             ELSE S.active
                  E2 == IF ~isNotePlaying(E1, wantedKey)
                        THEN startNote(E1, wantedKey, data.freq)
                        ELSE E1
              IN [E |-> E2, active |-> active1]
    ELSE [E |-> startNote(S.E, wantedKey, data.freq),
          active |-> MapSet(S.active, wantedKey, Tracked(data))]

\* Step 3 without the test of isNotePlaying of line 275.
StartOrUpdateOne_noRestart(S, wantedKey, data) ==
    IF wantedKey \in DOMAIN S.active
    THEN LET activeData == S.active[wantedKey] IN
         IF activeData.touchId # data.touchId
            \/ activeData.stringIndex # data.stringIndex
         THEN [E |-> startNote(S.E, wantedKey, data.freq),
               active |-> MapSet(S.active, wantedKey, Tracked(data))]
         ELSE LET moved == FreqMoved(activeData.freq, data.freq)
                  E1 == IF moved
                        THEN updateNotePitch(S.E, wantedKey, data.freq)
                        ELSE S.E
                  active1 == IF moved
                             THEN [S.active EXCEPT ![wantedKey].freq = data.freq]
                             ELSE S.active
              IN [E |-> E1, active |-> active1]
    ELSE [E |-> startNote(S.E, wantedKey, data.freq),
          active |-> MapSet(S.active, wantedKey, Tracked(data))]

\* Step 3 for one wanted key.
StartOrUpdateOne(S, wantedKey, data) ==
    IF wantedKey \in DOMAIN S.active
    THEN LET activeData == S.active[wantedKey] IN
         IF activeData.touchId # data.touchId
            \/ activeData.stringIndex # data.stringIndex
         THEN [E |-> startNote(S.E, wantedKey, data.freq),
               active |-> MapSet(S.active, wantedKey, Tracked(data))]
         ELSE LET moved == FreqMoved(activeData.freq, data.freq)
                  E1 == IF moved
                        THEN updateNotePitch(S.E, wantedKey, data.freq)
                        ELSE S.E
                  active1 == IF moved
                             THEN [S.active EXCEPT ![wantedKey].freq = data.freq]
                             ELSE S.active
                  E2 == IF ~isNotePlaying(E1, wantedKey)
                        THEN startNote(E1, wantedKey, data.freq)
                        ELSE E1
              IN [E |-> E2, active |-> active1]
    ELSE [E |-> startNote(S.E, wantedKey, data.freq),
          active |-> MapSet(S.active, wantedKey, Tracked(data))]

RECURSIVE StartOrUpdate(_, _, _)
StartOrUpdate(S, wanted, n) ==
    IF n > Len(wanted) THEN S
    ELSE StartOrUpdate(StartOrUpdateOne(S, wanted[n][1], wanted[n][2]),
                       wanted, n + 1)

syncAudioEngine(E, ts, active, mono) ==
    LET wanted == WantedNotes(ts, mono)
        S1 == StopUnwanted([E |-> E, active |-> active], DOMAIN active,
                           WantedKeys(wanted))
    IN StartOrUpdate(S1, wanted, 1)

\* An auto-tune pass that snaps to the nearest semitone.
autoTune_round(data, t) ==
    IF ~data.isTuned /\ (t - data.lastMove > TUNE_DELAY)
    THEN IF data.rawSemitones # Sentinel
         THEN LET nearestSemitone == Round(data.rawSemitones)
                  targetFreq == calculateFreqFromSemitones(data.stringIndex,
                                                           nearestSemitone)
                  newOffset == nearestSemitone - data.rawSemitones
                  snapped == IF FreqMoved(data.freq, targetFreq)
                             THEN [data EXCEPT !.freq = targetFreq,
                                               !.startOffset = newOffset]
                             ELSE data
              IN [snapped EXCEPT !.isTuned = TRUE]
         ELSE data
    ELSE data

\* The auto-tune pass of the game loop over one TouchData.
autoTune(data, t) ==
    IF ~data.isTuned /\ (t - data.lastMove > TUNE_DELAY)
    THEN IF data.rawSemitones # Sentinel
         THEN LET nearestSemitone == Ceil(data.rawSemitones)
                  targetFreq == calculateFreqFromSemitones(data.stringIndex,
                                                           nearestSemitone)
                  newOffset == nearestSemitone - data.rawSemitones
                  snapped == IF FreqMoved(data.freq, targetFreq)
                             THEN [data EXCEPT !.freq = targetFreq,
                                               !.startOffset = newOffset]
                             ELSE data
              IN [snapped EXCEPT !.isTuned = TRUE]
         ELSE data
    ELSE data

\* The body of the frame callback under if (!isMenuOpenRef.current).
LoopBody ==
    LET S == syncAudioEngine(Engine(MaxAppTimers), touchesRef, activeNoteIdsRef,
                             isMonophonic)
        wanted == WantedNotes(touchesRef, isMonophonic)
    IN /\ SetEngine(checkState(S.E))
       /\ activeNoteIdsRef' = S.active
       /\ touchesRef' = [n \in 1..Len(touchesRef) |-> autoTune(touchesRef[n], now)]
       /\ lastTick' = [ran |-> TRUE,
                       wanted |-> [k \in WantedKeys(wanted) |->
                           wanted[CHOOSE n \in 1..Len(wanted) :
                                      wanted[n][1] = k][2].touchId],
                       tracked |-> DOMAIN activeNoteIdsRef]

\* The frame callback without the test of isMenuOpenRef.
Loop_ignoringMenu ==
    /\ LoopBody
    /\ UNCHANGED <<isMonophonic, hasStarted, isMenuOpen, isMouseDownRef,
                   contacts, now>>

\* The frame callback of the game loop, on the state of the program.
LoopFrame ==
    /\ IF ~isMenuOpen
       THEN LoopBody
       ELSE /\ UNCHANGED <<engineVars, touchesRef, activeNoteIdsRef>>
            /\ lastCmds' = {}
            /\ lastTick' = NoTick
    /\ UNCHANGED <<isMonophonic, hasStarted, isMenuOpen, isMouseDownRef, now>>

\* The frame callback of the game loop.
Loop == LoopFrame /\ UNCHANGED contacts

(***************************************************************************)
(* Fretboard: event handlers.                                              *)
(***************************************************************************)
\* processInput for every touch of e.touches, in the order of the list.
RECURSIVE ProcessBatch(_, _, _, _)
ProcessBatch(R, batch, ids, t) ==
    IF ids = {} THEN R
    ELSE LET id == CHOOSE i \in ids : \A j \in ids : i <= j
             r == processInput(R.touches, id, batch[id][1], batch[id][2], t)
         IN ProcessBatch([ok |-> R.ok /\ r.ok, touches |-> r.touches],
                         batch, ids \ {id}, t)

\* A cleanup that deletes nothing.
CleanupDead_none(ts, activeIds) == ts

\* Cleanup of the touches that are not in the event, the mouse excluded.
CleanupDead(ts, activeIds) ==
    SelectSeq(ts, LAMBDA d : d.touchId \in activeIds \/ d.touchId = MOUSE_ID)

\* touchstart, touchmove, touchend, touchcancel: e.touches is batch.  The
\* call of audioEngine.resume() in it and in handleMouseDown changes nothing
\* of the engine state of the model (see resume).
TouchEvent(ids, batch) ==
    /\ hasStarted
    /\ IF isMenuOpen THEN UNCHANGED touchesRef
       ELSE LET R == ProcessBatch([ok |-> TRUE, touches |-> touchesRef],
                                  batch, ids, now)
            IN /\ R.ok
               /\ touchesRef' = CleanupDead(R.touches, ids)
    /\ lastCmds' = {}
    /\ lastTick' = NoTick
    /\ UNCHANGED <<engineVars, isMonophonic, hasStarted, isMenuOpen,
                   activeNoteIdsRef, isMouseDownRef, now>>

handleNativeTouch ==
    \E ids \in SUBSET TouchIds :
      \E batch \in [ids -> XSamples \X YSamples] :
        /\ TouchEvent(ids, batch)
        /\ contacts' = ids

handleMouseDown ==
    \E x \in MouseXSamples, y \in MouseYSamples :
        /\ hasStarted
        /\ IF isMenuOpen THEN UNCHANGED <<isMouseDownRef, touchesRef>>
           ELSE LET r == processInput(touchesRef, MOUSE_ID, x, y, now) IN
                /\ r.ok
                /\ isMouseDownRef' = TRUE
                /\ touchesRef' = r.touches
        /\ lastCmds' = {}
        /\ lastTick' = NoTick
        /\ UNCHANGED <<engineVars, isMonophonic, hasStarted, isMenuOpen,
                       activeNoteIdsRef, contacts, now>>

\* handleMouseMove without the test of isMouseDownRef.
handleMouseMove_noFlag ==
    \E x \in MouseXSamples, y \in MouseYSamples :
        /\ hasStarted
        /\ IF isMenuOpen THEN UNCHANGED touchesRef
           ELSE LET r == processInput(touchesRef, MOUSE_ID, x, y, now) IN
                /\ r.ok
                /\ touchesRef' = r.touches
        /\ lastCmds' = {}
        /\ lastTick' = NoTick
        /\ UNCHANGED <<engineVars, isMonophonic, hasStarted, isMenuOpen,
                       activeNoteIdsRef, isMouseDownRef, contacts, now>>

handleMouseMove ==
    \E x \in MouseXSamples, y \in MouseYSamples :
        /\ hasStarted
        /\ IF ~isMouseDownRef \/ isMenuOpen THEN UNCHANGED touchesRef
           ELSE LET r == processInput(touchesRef, MOUSE_ID, x, y, now) IN
                /\ r.ok
                /\ touchesRef' = r.touches
        /\ lastCmds' = {}
        /\ lastTick' = NoTick
        /\ UNCHANGED <<engineVars, isMonophonic, hasStarted, isMenuOpen,
                       activeNoteIdsRef, isMouseDownRef, contacts, now>>

\* handleMouseUp and handleMouseLeave have the same body.
MouseEnds ==
    /\ IF isMouseDownRef
       THEN /\ isMouseDownRef' = FALSE
            /\ touchesRef' = SeqDelete(touchesRef, MOUSE_ID)
       ELSE UNCHANGED <<isMouseDownRef, touchesRef>>
    /\ lastCmds' = {}
    /\ lastTick' = NoTick
    /\ UNCHANGED <<engineVars, isMonophonic, hasStarted, isMenuOpen,
                   activeNoteIdsRef, contacts, now>>

handleMouseUp == hasStarted /\ MouseEnds

handleMouseLeave == hasStarted /\ MouseEnds

(***************************************************************************)
(* App: the splash screen, the menu and the settings.                      *)
(***************************************************************************)
\* handleStart: the button of the splash screen.
handleStart ==
    /\ ~hasStarted
    /\ SetEngine(resume(init(Engine(MaxAppTimers))))
    /\ hasStarted' = TRUE
    /\ lastTick' = NoTick
    /\ UNCHANGED <<isMonophonic, isMenuOpen, boardVars, contacts, now>>

\* The menu button: setIsMenuOpen(true) and the effect that mirrors it.
OpenMenu ==
    /\ hasStarted
    /\ ~isMenuOpen
    /\ isMenuOpen' = TRUE
    /\ lastCmds' = {}
    /\ lastTick' = NoTick
    /\ UNCHANGED <<engineVars, isMonophonic, hasStarted, boardVars, contacts, now>>

\* onClose of Controls.
CloseMenu ==
    /\ isMenuOpen
    /\ isMenuOpen' = FALSE
    /\ lastCmds' = {}
    /\ lastTick' = NoTick
    /\ UNCHANGED <<engineVars, isMonophonic, hasStarted, boardVars, contacts, now>>

\* The mode toggle of Controls, which is rendered only while the menu is open:
\* updateSetting passes the app's settings with the new mode to the engine.
ToggleMonophonic ==
    /\ isMenuOpen
    /\ isMonophonic' = ~isMonophonic
    /\ SetEngine(updateSettings(Engine(MaxAppTimers),
                                [DefaultSettings EXCEPT !.isMonophonic = ~isMonophonic]))
    /\ lastTick' = NoTick
    /\ UNCHANGED <<hasStarted, isMenuOpen, boardVars, contacts, now>>

\* Time passes.
Advance ==
    /\ now + TimeStep <= MaxTime
    /\ now' = now + TimeStep
    /\ lastCmds' = {}
    /\ lastTick' = NoTick
    /\ UNCHANGED <<engineVars, isMonophonic, hasStarted, isMenuOpen, boardVars,
                   contacts>>

Init ==
    /\ ctx = FALSE
    /\ activeNodes = <<>>
    /\ connected = {}
    /\ releaseTimers = {}
    /\ killTimers = {}
    /\ settings = DefaultSettings
    /\ phaserFilters = 0
    /\ isMonophonic = FALSE
    /\ hasStarted = FALSE
    /\ isMenuOpen = FALSE
    /\ touchesRef = <<>>
    /\ activeNoteIdsRef = <<>>
    /\ isMouseDownRef = FALSE
    /\ contacts = {}
    /\ now = 0
    /\ lastCmds = {}
    /\ lastTick = NoTick

EngineNext ==
    \/ ApiInit
    \/ ApiStartNote
    \/ ApiUpdateNotePitch
    \/ ApiStopNote
    \/ ApiKillNoteImmediate
    \/ ReleaseTimer
    \/ KillTimer

EngineSpec == Init /\ [][EngineNext]_vars

\* The engine with its settings and the calls that keep the context awake.
LifecycleNext ==
    \/ EngineNext
    \/ ApiUpdateSettings
    \/ ApiResume
    \/ ApiCheckState

LifecycleSpec == Init /\ [][LifecycleNext]_vars

\* Every scheduled timeout runs: the closures of a key are not postponed forever.
FairEngineSpec ==
    /\ EngineSpec
    /\ \A noteId \in Keys : WF_vars(ReleaseTimerFor(noteId))
    /\ WF_vars(KillTimer)

Next ==
    \/ handleStart
    \/ Loop
    \/ handleNativeTouch
    \/ handleMouseDown
    \/ handleMouseMove
    \/ handleMouseUp
    \/ handleMouseLeave
    \/ OpenMenu
    \/ CloseMenu
    \/ ToggleMonophonic
    \/ Advance
    \/ ReleaseTimer
    \/ KillTimer

Spec == Init /\ [][Next]_vars

(***************************************************************************)
(* The resolver on every pointer map of up to one touch and the mouse on   *)
(* two strings: the app right after the splash screen, in either mode,     *)
(* with the pointers just put down in any order.                           *)
(***************************************************************************)
LaneYSamples == {60, 100}

Orders ==
    {o \in UNION {[1..n -> PointerIds] : n \in 0..Cardinality(PointerIds)} :
        \A a, b \in DOMAIN o : a # b => o[a] # o[b]}

RECURSIVE InsertAll(_, _, _, _)
InsertAll(ts, order, pos, n) ==
    IF n > Len(order) THEN ts
    ELSE InsertAll(processInput(ts, order[n], pos[order[n]][1], pos[order[n]][2],
                                0).touches,
                   order, pos, n + 1)

ResolverInit ==
    \E order \in Orders, pos \in [PointerIds -> XSamples \X LaneYSamples],
       mono \in BOOLEAN :
        /\ ctx = TRUE
        /\ activeNodes = <<>>
        /\ connected = {}
        /\ releaseTimers = {}
        /\ killTimers = {}
        /\ settings = [DefaultSettings EXCEPT !.isMonophonic = mono]
        /\ phaserFilters = PhaserStages
        /\ isMonophonic = mono
        /\ hasStarted = TRUE
        /\ isMenuOpen = FALSE
        /\ touchesRef = InsertAll(<<>>, order, pos, 1)
        /\ activeNoteIdsRef = <<>>
        /\ isMouseDownRef = (\E n \in DOMAIN order : order[n] = MOUSE_ID)
        /\ contacts = {order[n] : n \in DOMAIN order} \ {MOUSE_ID}
        /\ now = 0
        /\ lastCmds = {}
        /\ lastTick = NoTick

ResolverNext ==
    \/ Loop
    \/ handleMouseUp
    \/ ReleaseTimer
    \/ KillTimer

ResolverSpec == ResolverInit /\ [][ResolverNext]_vars

(***************************************************************************)
(* Two fingers and the mouse on the board, the menu closed.  Here contacts *)
(* holds, for every finger on the surface, <<identifier, position, time    *)
(* since which the finger has been at that position>>.                     *)
(***************************************************************************)
TwoTouchXSamples == {26, 47}

\* The fingers of a batch with the time each has been where it is.
Held(ids, batch) ==
    {<<id, batch[id],
       IF \E c \in contacts : c[1] = id /\ c[2] = batch[id]
       THEN (CHOOSE c \in contacts : c[1] = id)[3]
       ELSE now>> : id \in ids}

TwoTouchBatches == UNION {[ids -> TwoTouchXSamples \X YSamples] : ids \in SUBSET TwoTouchIds}

\* handleNativeTouch for the event whose e.touches is batch.
handleNativeTouchOf(batch) ==
    /\ TouchEvent(DOMAIN batch, batch)
    /\ contacts' = Held(DOMAIN batch, batch)

TwoTouches == \E batch \in TwoTouchBatches : handleNativeTouchOf(batch)

\* The pointer map under the events of two fingers and the mouse.
TouchNext ==
    \/ handleStart
    \/ TwoTouches
    \/ handleMouseDown
    \/ handleMouseUp
    \/ Advance

TouchSpec == Init /\ [][TouchNext]_vars

\* Two fingers under the frame callback.
SettleNext ==
    \/ handleStart
    \/ TwoTouches
    \/ Loop
    \/ Advance
    \/ ReleaseTimer

SettleSpec == Init /\ [][SettleNext]_vars

(***************************************************************************)
(* One finger sampled over the surface: in the nut zone, on the edge of    *)
(* the nut, on and between frets, above and below the playable band and on *)
(* both sides of the edges of the band that keeps a pointer on its string. *)
(* The handler records the sample it passed to processInput in lastCmds.   *)
(***************************************************************************)
BoardXSamples == {10, 24, 26, 27}
BoardYSamples == {20, 60, 73, 74, 230}

\* The samples of a finger that stays down: along the first string, and
\* across the strings in the nut zone and between two frets.
SlideSamples ==
    {<<x, 60>> : x \in BoardXSamples}
        \cup {<<x, y>> : x \in {10, 26}, y \in BoardYSamples}

SampleInit ==
    /\ ctx = TRUE
    /\ activeNodes = <<>>
    /\ connected = {}
    /\ releaseTimers = {}
    /\ killTimers = {}
    /\ settings = DefaultSettings
    /\ phaserFilters = PhaserStages
    /\ isMonophonic = FALSE
    /\ hasStarted = TRUE
    /\ isMenuOpen = FALSE
    /\ touchesRef = <<>>
    /\ activeNoteIdsRef = <<>>
    /\ isMouseDownRef = FALSE
    /\ contacts = {}
    /\ now = 0
    /\ lastCmds = {}
    /\ lastTick = NoTick

\* handleNativeTouch for the event whose e.touches is batch.
SampledTouchOf(ids, batch) ==
    /\ hasStarted
    /\ IF isMenuOpen THEN UNCHANGED touchesRef /\ lastCmds' = {}
       ELSE LET R == ProcessBatch([ok |-> TRUE, touches |-> touchesRef],
                                  batch, ids, now)
            IN /\ R.ok
               /\ touchesRef' = CleanupDead(R.touches, ids)
               /\ lastCmds' = {<<"processInput", TouchKey(id), batch[id]>> :
                                  id \in ids}
    /\ lastTick' = NoTick
    /\ UNCHANGED <<engineVars, isMonophonic, hasStarted, isMenuOpen,
                   activeNoteIdsRef, isMouseDownRef, now>>

\* A finger that lands anywhere, moves anywhere and lifts.
BoardTouch ==
    \E ids \in SUBSET TouchIds :
      \E batch \in [ids -> BoardXSamples \X BoardYSamples] :
        /\ SampledTouchOf(ids, batch)
        /\ contacts' = ids

\* The pointer map under the touch events of one finger.
BoardNext ==
    \/ BoardTouch
    \/ Advance

BoardSpec == SampleInit /\ [][BoardNext]_vars

\* A finger that lands and stays down.
SlideTouch ==
    \E batch \in [TouchIds -> SlideSamples] :
        /\ SampledTouchOf(TouchIds, batch)
        /\ contacts' = TouchIds

\* A held finger under the frame callback.
SlideNext ==
    \/ SlideTouch
    \/ Loop
    \/ Advance

SlideSpec == SampleInit /\ [][SlideNext]_vars

(***************************************************************************)
(* The velocity of a new pointer, over touches with and without force,     *)
(* vendor force and radii, the mouse, and three sensitivity settings.      *)
(***************************************************************************)
ForceSamples == {Undefined, 0, 500}
VendorForceSamples == {Undefined, 700, 1500}
RadiusSamples == {Undefined, 0, 4, 50}
VendorRadiusSamples == {Undefined, 20}
SensitivitySamples == {0, 500, 1000}

TouchInputs ==
    [force : ForceSamples, webkitForce : VendorForceSamples,
     radiusX : RadiusSamples, radiusY : RadiusSamples,
     webkitRadiusX : VendorRadiusSamples, webkitRadiusY : VendorRadiusSamples]

\* processInput creates the pointer of a touch.
NewTouchVelocity ==
    \E input \in TouchInputs, sensitivity \in SensitivitySamples :
        /\ lastCmds' = {<<"estimateVelocity", <<input, sensitivity>>,
                          estimateVelocity(input, sensitivity)>>}
        /\ lastTick' = NoTick
        /\ UNCHANGED <<engineVars, isMonophonic, hasStarted, isMenuOpen, boardVars,
                       contacts, now>>

\* processInput creates the pointer of the mouse.
NewMouseVelocity ==
    \E sensitivity \in SensitivitySamples :
        /\ lastCmds' = {<<"estimateVelocity", <<[number |-> MouseForce], sensitivity>>,
                          estimateVelocity([number |-> MouseForce], sensitivity)>>}
        /\ lastTick' = NoTick
        /\ UNCHANGED <<engineVars, isMonophonic, hasStarted, isMenuOpen, boardVars,
                       contacts, now>>

VelocityNext == NewTouchVelocity \/ NewMouseVelocity

VelocitySpec == Init /\ [][VelocityNext]_vars

(***************************************************************************)
(* One finger that slides and changes string, and the mouse, under the     *)
(* frame callback: the app after the splash screen with the mode already   *)
(* chosen in the menu and nothing on the board.                            *)
(***************************************************************************)
PlayInit ==
    \E mono \in BOOLEAN :
        /\ ctx = TRUE
        /\ activeNodes = <<>>
        /\ connected = {}
        /\ releaseTimers = {}
        /\ killTimers = {}
        /\ settings = [DefaultSettings EXCEPT !.isMonophonic = mono]
        /\ phaserFilters = PhaserStages
        /\ isMonophonic = mono
        /\ hasStarted = TRUE
        /\ isMenuOpen = FALSE
        /\ touchesRef = <<>>
        /\ activeNoteIdsRef = <<>>
        /\ isMouseDownRef = FALSE
        /\ contacts = {}
        /\ now = 0
        /\ lastCmds = {}
        /\ lastTick = NoTick

PlayTouches ==
    \E ids \in SUBSET TouchIds :
      \E batch \in [ids -> TwoTouchXSamples \X LaneYSamples] :
        /\ TouchEvent(ids, batch)
        /\ contacts' = ids

PlayNext ==
    \/ PlayTouches
    \/ handleMouseDown
    \/ handleMouseUp
    \/ Loop
    \/ Advance
    \/ ReleaseTimer
    \/ KillTimer

PlaySpec == PlayInit /\ [][PlayNext]_vars

(***************************************************************************)
(* The Fretboard component on the exported engine object, which other code *)
(* can call as well: the board takes input whether or not init has been    *)
(* called, and init, stopNote and killNoteImmediate are called from         *)
(* outside the resolver at any time.                                       *)
(***************************************************************************)
SharedInit ==
    \E mono \in BOOLEAN :
        /\ ctx = FALSE
        /\ activeNodes = <<>>
        /\ connected = {}
        /\ releaseTimers = {}
        /\ killTimers = {}
        /\ settings = [DefaultSettings EXCEPT !.isMonophonic = mono]
        /\ phaserFilters = 0
        /\ isMonophonic = mono
        /\ hasStarted = TRUE
        /\ isMenuOpen = FALSE
        /\ touchesRef = <<>>
        /\ activeNoteIdsRef = <<>>
        /\ isMouseDownRef = FALSE
        /\ contacts = {}
        /\ now = 0
        /\ lastCmds = {}
        /\ lastTick = NoTick

OtherInit ==
    /\ SetEngine(init(Engine(MaxTimers)))
    /\ lastTick' = NoTick
    /\ UNCHANGED <<isMonophonic, hasStarted, isMenuOpen, boardVars, contacts, now>>

OtherStopNote ==
    \E k \in ApiKeys :
        /\ SetEngine(stopNote(Engine(MaxTimers), k))
        /\ lastTick' = NoTick
        /\ UNCHANGED <<isMonophonic, hasStarted, isMenuOpen, boardVars, contacts, now>>

OtherKillNoteImmediate ==
    \E k \in ApiKeys :
        /\ SetEngine(killNoteImmediate(Engine(MaxTimers), k))
        /\ lastTick' = NoTick
        /\ UNCHANGED <<isMonophonic, hasStarted, isMenuOpen, boardVars, contacts, now>>

SharedNext ==
    \/ PlayTouches
    \/ Loop
    \/ OtherInit
    \/ OtherStopNote
    \/ OtherKillNoteImmediate
    \/ ReleaseTimer
    \/ KillTimer

SharedSpec == SharedInit /\ [][SharedNext]_vars

(***************************************************************************)
(* Taps: a finger that is put down, lifted and put down again between      *)
(* frames.  Here contacts is the set of the ids whose pointer state has    *)
(* been created since the last frame callback and is still in the map.     *)
(***************************************************************************)
TapInit == PlayInit

TapTouches ==
    \E ids \in SUBSET TouchIds :
      \E batch \in [ids -> TwoTouchXSamples \X LaneYSamples] :
        /\ TouchEvent(ids, batch)
        /\ contacts' = (contacts \cap ids)
                          \cup {id \in ids : IndexOf(touchesRef, id) = 0}

TapLoop == LoopFrame /\ contacts' = {}

TapNext ==
    \/ TapTouches
    \/ TapLoop
    \/ ReleaseTimer
    \/ KillTimer

TapSpec == TapInit /\ [][TapNext]_vars

(***************************************************************************)
(* The engine with the settings that shape a voice changed between the     *)
(* calls, as the sliders and switches of Controls change them.             *)
(***************************************************************************)
VoicePartials ==
    {[octaveShift |-> b] : b \in BOOLEAN}
        \cup {[octavePedal |-> b] : b \in BOOLEAN}
        \cup {[subLevel |-> v] : v \in {0, 50}}
        \cup {[release |-> r] : r \in {20, 200}}

VoiceKeys == {TouchKey(1)}

VoiceSettings ==
    \E newSettings \in VoicePartials :
        /\ SetEngine(updateSettings(Engine(MaxTimers), newSettings))
        /\ UNCHANGED restOfApp

VoiceStartNote ==
    \E k \in VoiceKeys, f \in ApiFreqs :
        /\ SetEngine(startNote(Engine(MaxTimers), k, f))
        /\ UNCHANGED restOfApp

VoiceUpdateNotePitch ==
    \E k \in VoiceKeys, f \in ApiFreqs :
        /\ SetEngine(updateNotePitch(Engine(MaxTimers), k, f))
        /\ UNCHANGED restOfApp

VoiceStopNote ==
    \E k \in VoiceKeys :
        /\ SetEngine(stopNote(Engine(MaxTimers), k))
        /\ UNCHANGED restOfApp

VoiceKillNoteImmediate ==
    \E k \in VoiceKeys :
        /\ SetEngine(killNoteImmediate(Engine(MaxTimers), k))
        /\ UNCHANGED restOfApp

VoiceNext ==
    \/ ApiInit
    \/ VoiceSettings
    \/ VoiceStartNote
    \/ VoiceUpdateNotePitch
    \/ VoiceStopNote
    \/ VoiceKillNoteImmediate
    \/ ReleaseTimer
    \/ KillTimer

VoiceSpec == Init /\ [][VoiceNext]_vars

(***************************************************************************)
(* The delay loop: the engine under init, updateSettings with feedback     *)
(* values inside and above the documented range, and one voice.            *)
(***************************************************************************)
DelayPartials == {[delayFeedback |-> v] : v \in {0, 30, 70, 90, 120}}

\* init, which ends with updateSettings(this.settings) when it has built
\* the graph.
DelayInit ==
    /\ SetEngine(IF ctx THEN init(Engine(MaxTimers))
                 ELSE applySettings(updateSettings(init(Engine(MaxTimers)),
                                                   settings)))
    /\ UNCHANGED restOfApp

DelayUpdateSettings ==
    \E newSettings \in DelayPartials :
        /\ SetEngine(applySettings(updateSettings(Engine(MaxTimers), newSettings)))
        /\ UNCHANGED restOfApp

DelayNext ==
    \/ DelayInit
    \/ DelayUpdateSettings
    \/ VoiceStartNote
    \/ VoiceStopNote
    \/ ReleaseTimer
    \/ KillTimer

DelaySpec == Init /\ [][DelayNext]_vars

(***************************************************************************)
(* The tunings.  Frequencies are in hundredths of a hertz.  constants.ts   *)
(* holds two definitions of getTuning over the same pool: the first        *)
(* reverses each slice, the second returns it as it is; the module that    *)
(* Fretboard imports is one of them.                                       *)
(***************************************************************************)
STRING_POOL ==
    << [name |-> "F",  note |-> "F3",  freq |-> 17461],
       [name |-> "C",  note |-> "C3",  freq |-> 13081],
       [name |-> "G",  note |-> "G2",  freq |-> 9800],
       [name |-> "D",  note |-> "D2",  freq |-> 7342],
       [name |-> "A",  note |-> "A1",  freq |-> 5500],
       [name |-> "E",  note |-> "E1",  freq |-> 4120],
       [name |-> "B",  note |-> "B0",  freq |-> 3087],
       [name |-> "F#", note |-> "F#0", freq |-> 2312] >>

\* Array.prototype.slice(start, end) and reverse(), indices from 0.
slice(s, start, end) == SubSeq(s, start + 1, end)
reverse(s) == [j \in 1..Len(s) |-> s[Len(s) + 1 - j]]

clamped(count) == Max(4, Min(8, count))

\* getTuning of lines 14-31.
getTuning_reversed(count) ==
    CASE clamped(count) = 4 -> reverse(slice(STRING_POOL, 2, 6))
      [] clamped(count) = 5 -> reverse(slice(STRING_POOL, 2, 7))
      [] clamped(count) = 6 -> reverse(slice(STRING_POOL, 1, 7))
      [] clamped(count) = 7 -> reverse(slice(STRING_POOL, 0, 7))
      [] clamped(count) = 8 -> reverse(slice(STRING_POOL, 0, 8))
      [] OTHER -> reverse(slice(STRING_POOL, 1, 7))

\* getTuning of lines 53-70.
getTuning(count) ==
    CASE clamped(count) = 4 -> slice(STRING_POOL, 2, 6)
      [] clamped(count) = 5 -> slice(STRING_POOL, 2, 7)
      [] clamped(count) = 6 -> slice(STRING_POOL, 1, 7)
      [] clamped(count) = 7 -> slice(STRING_POOL, 0, 7)
      [] clamped(count) = 8 -> slice(STRING_POOL, 0, 8)
      [] OTHER -> slice(STRING_POOL, 1, 7)

Definitions == {"lines 14-31", "lines 53-70"}

getTuningOf(definition, count) ==
    IF definition = "lines 14-31" THEN getTuning_reversed(count) ELSE getTuning(count)

\* currentTuning[stringIndex]?.freq || 440
baseFreq(currentTuning, stringIndex) ==
    IF stringIndex + 1 \in DOMAIN currentTuning
    THEN currentTuning[stringIndex + 1].freq
    ELSE 440 * 100

CountSamples == 0..10
StringIndexSamples == 0..8

\* Fretboard derives currentTuning from a string count.
DeriveTuning ==
    \E definition \in Definitions, count \in CountSamples :
        /\ lastCmds' = {<<"getTuning", <<definition, count>>,
                          getTuningOf(definition, count)>>}
        /\ lastTick' = NoTick
        /\ UNCHANGED <<engineVars, isMonophonic, hasStarted, isMenuOpen, boardVars,
                       contacts, now>>

\* calculateFreqFromSemitones looks up the base frequency of a string.
LookupBaseFreq ==
    \E definition \in Definitions, count \in CountSamples,
       stringIndex \in StringIndexSamples :
        /\ lastCmds' = {<<"baseFreq", <<definition, count, stringIndex>>,
                          baseFreq(getTuningOf(definition, count), stringIndex)>>}
        /\ lastTick' = NoTick
        /\ UNCHANGED <<engineVars, isMonophonic, hasStarted, isMenuOpen, boardVars,
                       contacts, now>>

TuningNext == DeriveTuning \/ LookupBaseFreq

TuningSpec == Init /\ [][TuningNext]_vars

(***************************************************************************)
(* Properties of the voice registry.                                       *)
(***************************************************************************)
Playing(noteId) == isNotePlaying([activeNodes |-> activeNodes], noteId)

Releasing(noteId) ==
    noteId \in DOMAIN activeNodes /\ activeNodes[noteId].isReleasing

Called(cmds, op, noteId) == \E c \in cmds : c[1] = op /\ c[2] = noteId

\* C1: on an initialized engine, startNote on a key that holds a voice
\* (playing or releasing) kills that voice and registers a new one: after
\* the call the key's entry is a voice object other than the previous one,
\* connected, not releasing and with no timer pending, and the previous
\* object is out of the registry, waiting for the disconnect of its kill.
C1_StartNoteReplaces ==
    [][\A noteId \in Keys :
          (ctx /\ noteId \in DOMAIN activeNodes /\ Called(lastCmds', "start", noteId))
          => /\ Playing(noteId)'
             /\ NodeOf(activeNodes', noteId) # NodeOf(activeNodes, noteId)
             /\ NodeOf(activeNodes', noteId) \in connected'
             /\ NodeOf(activeNodes', noteId) \notin releaseTimers' \cup killTimers'
             /\ NodeOf(activeNodes, noteId) \in killTimers']_vars

\* C1 happens: a start has just replaced a releasing voice of its key.
C1_Witness ==
    \E noteId \in Keys :
        /\ Called(lastCmds, "start", noteId)
        /\ Called(lastCmds, "kill", noteId)
        /\ Playing(noteId)
        /\ \E t \in killTimers \cap releaseTimers : t[1] = noteId

\* C2: when a cleanup closure of stopNote runs for a key whose registered
\* voice is playing (so the closure belongs to an earlier voice of the key),
\* the key keeps its voice, the voice is still playing and still connected.
C2_StaleTimerHarmless ==
    [][\A noteId \in Keys :
          (Playing(noteId)
             /\ (Called(lastCmds', "cleanup", noteId)
                    \/ Called(lastCmds', "staleTimer", noteId)))
          => /\ Playing(noteId)'
             /\ activeNodes'[noteId].baseFreq = activeNodes[noteId].baseFreq
             /\ NodeOf(activeNodes', noteId) \in connected']_vars

\* C2 happens: the closure of an earlier voice has just run under a playing key.
C2_Witness ==
    \E noteId \in Keys :
        /\ Called(lastCmds, "staleTimer", noteId)
        /\ Playing(noteId)

\* C3: stopNote on a playing key leaves the same voice registered and marked
\* releasing, so isNotePlaying is false on return; updateNotePitch on a
\* releasing key leaves it releasing and changes nothing of the voice.
C3_StopIsSynchronous ==
    [][\A noteId \in Keys :
          /\ (ctx /\ Playing(noteId) /\ Called(lastCmds', "stop", noteId))
             => /\ Releasing(noteId)'
                /\ ~Playing(noteId)'
                /\ NodeOf(activeNodes', noteId) = NodeOf(activeNodes, noteId)
          /\ (Releasing(noteId) /\ Called(lastCmds', "update", noteId))
             => /\ Releasing(noteId)'
                /\ activeNodes'[noteId] = activeNodes[noteId]]_vars

\* C3 happens: updateNotePitch with another frequency has just been called
\* on a key that stopNote had put into release.
C3_Witness ==
    \E noteId \in Keys, f \in ApiFreqs :
        /\ lastCmds = {<<"update", noteId, f>>}
        /\ Releasing(noteId)
        /\ activeNodes[noteId].baseFreq # f

\* C4: if every scheduled timeout runs, a key whose registered voice is
\* releasing reaches a state where that voice is out of the registry (the
\* key is absent, or holds a later voice, which is not releasing).
C4_ReleasingLeavesRegistry ==
    \A noteId \in Keys : Releasing(noteId) ~> ~Releasing(noteId)

\* C4 happens: the cleanup closure of a releasing voice has just dropped it.
C4_Witness ==
    \E noteId \in Keys :
        /\ Called(lastCmds, "cleanup", noteId)
        /\ noteId \notin DOMAIN activeNodes

(***************************************************************************)
(* Properties of the resolver and of the pointer map.                      *)
(***************************************************************************)
OnString(ts, i) == {n \in 1..Len(ts) : ts[n].stringIndex = i}

Strings == 0..(StringCount - 1)

\* C5: at a tick of monophonic mode with two or more pointers on a string,
\* the key of the string is playing after the tick and is tracked for a
\* pointer of that string whose frequency no other pointer of the string
\* exceeds.
C5_MonoHigherPitchWins ==
    [][(lastTick'.ran /\ isMonophonic /\ ctx)
       => \A i \in Strings :
            Cardinality(OnString(touchesRef, i)) >= 2
            => /\ Playing(StringKey(i))'
               /\ StringKey(i) \in DOMAIN activeNoteIdsRef'
               /\ \E w \in OnString(touchesRef, i) :
                    /\ touchesRef[w].touchId = activeNoteIdsRef'[StringKey(i)].touchId
                    /\ \A n \in OnString(touchesRef, i) :
                         touchesRef[n].freq[2] <= touchesRef[w].freq[2]]_vars

\* C6: after a tick of monophonic mode the demand holds the key of string
\* i exactly for the strings that have a pointer, and the pointer demanded
\* for a string has the greatest effective semitone value on it (the open
\* string counting as -1), the first in insertion order among equals.
C6_MonoDemand ==
    (lastTick.ran /\ isMonophonic)
    => /\ DOMAIN lastTick.wanted =
            {StringKey(i) : i \in {j \in Strings : OnString(touchesRef, j) # {}}}
       /\ \A i \in Strings :
            OnString(touchesRef, i) # {}
            => LET w == IndexOf(touchesRef, lastTick.wanted[StringKey(i)]) IN
               /\ w \in OnString(touchesRef, i)
               /\ \A n \in OnString(touchesRef, i) :
                    \/ Semi(touchesRef[n]) < Semi(touchesRef[w])
                    \/ Semi(touchesRef[n]) = Semi(touchesRef[w]) /\ w <= n

\* C6 happens: a monophonic tick has arbitrated two pointers of equal
\* value on one string.
C6_Witness ==
    /\ lastTick.ran
    /\ isMonophonic
    /\ Len(touchesRef) = 2
    /\ touchesRef[1].stringIndex = touchesRef[2].stringIndex
    /\ touchesRef[1].rawSemitones # Sentinel
    /\ Semi(touchesRef[1]) = Semi(touchesRef[2])
    /\ lastTick.wanted[StringKey(touchesRef[1].stringIndex)] = touchesRef[1].touchId

\* C7: after a tick of polyphonic mode the demand holds exactly the keys
\* touch-id of the pointers of the map, each for its own pointer, and on an
\* initialized engine every one of them is tracked and playing.
C7_PolyDemand ==
    (lastTick.ran /\ ~isMonophonic)
    => /\ DOMAIN lastTick.wanted =
            {TouchKey(touchesRef[n].touchId) : n \in 1..Len(touchesRef)}
       /\ \A n \in 1..Len(touchesRef) :
            LET id == touchesRef[n].touchId IN
            /\ lastTick.wanted[TouchKey(id)] = id
            /\ ctx => /\ Playing(TouchKey(id))
                      /\ TouchKey(id) \in DOMAIN activeNoteIdsRef
                      /\ activeNoteIdsRef[TouchKey(id)].touchId = id

\* C7 happens: a polyphonic tick with two pointers on one string.
C7_Witness ==
    /\ lastTick.ran
    /\ ~isMonophonic
    /\ Len(touchesRef) = 2
    /\ touchesRef[1].stringIndex = touchesRef[2].stringIndex
    /\ \A n \in 1..2 : Playing(TouchKey(touchesRef[n].touchId))

\* C8: after a tick, every key that was tracked and is not demanded has
\* been passed to stopNote and not to killNoteImmediate, is not playing and
\* is not tracked any more; no demanded key has been passed to stopNote.
C8_StopUnwanted ==
    lastTick.ran
    => /\ \A k \in lastTick.tracked \ DOMAIN lastTick.wanted :
            /\ Called(lastCmds, "stop", k)
            /\ ~Called(lastCmds, "kill", k)
            /\ ~Playing(k)
            /\ k \notin DOMAIN activeNoteIdsRef
       /\ \A k \in DOMAIN lastTick.wanted : ~Called(lastCmds, "stop", k)

\* C8 happens: a tick has just released a tracked key that had lost its demand.
C8_Witness ==
    /\ lastTick.ran
    /\ \E k \in lastTick.tracked \ DOMAIN lastTick.wanted : Releasing(k)

\* C9: a step taken with the menu open before and after it runs no tick,
\* calls none of startNote, stopNote, updateNotePitch and killNoteImmediate,
\* and leaves the set of playing keys as it was.
C9_MenuSuspendsResolver ==
    [][(isMenuOpen /\ isMenuOpen')
       => /\ ~lastTick'.ran
          /\ \A c \in lastCmds' : c[1] \notin {"start", "stop", "update", "kill"}
          /\ {k \in Keys : Playing(k)}' = {k \in Keys : Playing(k)}]_vars

\* C9 happens: the menu is open and a key is playing whose pointer is gone.
C9_Witness ==
    /\ isMenuOpen
    /\ touchesRef = <<>>
    /\ \E k \in Keys : Playing(k) /\ k \in DOMAIN activeNoteIdsRef

\* C10: at a tick, every touch pointer of the map is a finger that is on
\* the surface, and the mouse pointer is in the map only while pressed.
C10_NoEndedPointerAtTick ==
    lastTick.ran
    => \A n \in 1..Len(touchesRef) :
         IF touchesRef[n].touchId = MOUSE_ID THEN isMouseDownRef
         ELSE touchesRef[n].touchId \in contacts

(***************************************************************************)
(* Calls that find nothing to do.                                          *)
(***************************************************************************)
\* A timeout was scheduled by the handler whose calls are cmds.
Scheduled(cmds) ==
    \E c \in cmds : c[1] \in {"setTimeout", "window.setTimeout"}

\* C15: updateNotePitch, stopNote and killNoteImmediate on a key that has no
\* registry entry change nothing of the engine (registry, connected voices,
\* pending timers, settings, graph) and schedule no timeout, and
\* isNotePlaying of such a key is false.
C15_UnknownKeyNoOp ==
    [][\A noteId \in Keys :
          (/\ noteId \notin DOMAIN activeNodes
           /\ \/ Called(lastCmds', "update", noteId)
              \/ Called(lastCmds', "stop", noteId)
              \/ Called(lastCmds', "kill", noteId))
          => /\ engineVars' = engineVars
             /\ ~Scheduled(lastCmds')
             /\ ~Playing(noteId)
             /\ ~Playing(noteId)']_vars

\* C15 happens: on an initialized engine that holds a voice of another key,
\* stopNote has just been called on a key without entry.
C15_Witness ==
    \E noteId \in Keys :
        /\ ctx
        /\ lastCmds = {<<"stop", noteId, NoFreq>>}
        /\ noteId \notin DOMAIN activeNodes
        /\ DOMAIN activeNodes # {}

\* C16: stopNote on a key whose voice is already releasing changes nothing
\* (the voice stays registered and releasing, no second timeout is
\* scheduled), and killNoteImmediate called again on a key that
\* killNoteImmediate has just removed changes nothing either.
C16_RepeatedStopOrKill ==
    [][\A noteId \in Keys :
          /\ (Releasing(noteId) /\ Called(lastCmds', "stop", noteId))
             => /\ engineVars' = engineVars
                /\ Releasing(noteId)'
                /\ ~Scheduled(lastCmds')
          /\ (/\ Called(lastCmds, "kill", noteId)
              /\ Called(lastCmds, "setTimeout", noteId)
              /\ noteId \notin DOMAIN activeNodes
              /\ Called(lastCmds', "kill", noteId))
             => /\ engineVars' = engineVars
                /\ ~Scheduled(lastCmds')]_vars

\* C16 happens: stopNote has just returned from a key whose voice was
\* releasing and still waits for the one cleanup of its first stopNote.
C16_Witness ==
    \E noteId \in Keys :
        /\ lastCmds = {<<"stop", noteId, NoFreq>>}
        /\ Releasing(noteId)
        /\ NodeOf(activeNodes, noteId) \in releaseTimers

(***************************************************************************)
(* The engine before and after init.                                       *)
(***************************************************************************)
\* The engine without its settings.
graphVars == <<ctx, activeNodes, connected, releaseTimers, killTimers, phaserFilters>>

\* One of the four note methods was called by the handler whose calls are cmds.
NoteCalled(cmds) ==
    \E c \in cmds : c[1] \in {"start", "update", "stop", "kill"}

\* C17 as stated: while the engine has no context, every step that does not
\* create one (a call of startNote, updateNotePitch, stopNote,
\* killNoteImmediate, updateSettings, resume or checkState) leaves the whole
\* engine state unchanged, schedules no timeout and leaves isNotePlaying
\* false for every key.
C17_UninitializedNoOp_Stated ==
    [][(~ctx /\ ~ctx')
          => /\ engineVars' = engineVars
             /\ ~Scheduled(lastCmds')
             /\ \A noteId \in Keys : ~Playing(noteId)']_vars

\* C17, amended: while the engine has no context, every step that does not
\* create one leaves the registry, the connected voices, the timers and the
\* graph unchanged, schedules no timeout and leaves isNotePlaying false for
\* every key; the four note methods leave the settings unchanged as well,
\* and the only thing any call changes is the stored settings
\* (updateSettings merges its argument before it tests the context).
C17_UninitializedNoOp ==
    [][(~ctx /\ ~ctx')
          => /\ graphVars' = graphVars
             /\ activeNodes' = <<>>
             /\ ~Scheduled(lastCmds')
             /\ \A noteId \in Keys : ~Playing(noteId)'
             /\ NoteCalled(lastCmds') => settings' = settings
             /\ settings' \in SettingValues]_vars

\* C17 happens: startNote has just returned from an engine without context
\* whose settings an earlier updateSettings had changed.
C17_Witness ==
    \E noteId \in Keys :
        /\ ~ctx
        /\ Called(lastCmds, "start", noteId)
        /\ settings # DefaultSettings

\* C18: init on an engine that has a context changes nothing: the context,
\* the graph (phaserFilters still holds exactly 4 stages), the registry with
\* its voices and timers, and the settings are what they were.
C18_InitOnce ==
    [][(ctx /\ Called(lastCmds', "init", NoKey))
          => /\ engineVars' = engineVars
             /\ phaserFilters' = 4
             /\ ~Scheduled(lastCmds')]_vars

\* C18 happens: init has just returned from an engine that holds a playing
\* voice, a pending timer and settings other than the defaults.
C18_Witness ==
    /\ ctx
    /\ lastCmds = {<<"init", NoKey, NoFreq>>}
    /\ \E noteId \in Keys : Playing(noteId)
    /\ releaseTimers \cup killTimers # {}
    /\ settings # DefaultSettings

(***************************************************************************)
(* The tunings.                                                            *)
(***************************************************************************)
\* The sequence is pool[start+1 .. start+Len] for some start.
IsPoolSlice(tuning) ==
    \E start \in 0..Len(STRING_POOL) :
        /\ start + Len(tuning) <= Len(STRING_POOL)
        /\ \A j \in 1..Len(tuning) : tuning[j] = STRING_POOL[start + j]

\* C19: for every count n in 4..8 the tuning derived from n has n entries,
\* is a contiguous slice of the 8-entry pool, has its highest-pitch string
\* at index 0 and strictly monotonic base frequencies along the index; a
\* count below 4 gives the tuning of 4, a count above 8 the tuning of 8.
C19_TuningOrder ==
    \A c \in lastCmds :
        c[1] = "getTuning"
        => LET definition == c[2][1]
               count == c[2][2]
               tuning == c[3]
           IN /\ count \in 4..8 => Len(tuning) = count
              /\ IsPoolSlice(tuning)
              /\ \A j \in 2..Len(tuning) : tuning[1].freq > tuning[j].freq
              /\ \A j \in 2..Len(tuning) : tuning[j - 1].freq > tuning[j].freq
              /\ count < 4 => tuning = getTuningOf(definition, 4)
              /\ count > 8 => tuning = getTuningOf(definition, 8)

(***************************************************************************)
(* Properties of processInput and of the auto-tune pass.                   *)
(***************************************************************************)
\* The pointer of the map ts with the identifier id.
TouchOf(ts, id) == ts[IndexOf(ts, id)]

\* C12: a pointer that an event adds to the map with a first sample right of
\* the nut zone, of raw offset r, has r + startOffset equal to the whole
\* semitone nearest to r, and its frequency is the base of its string raised
\* by that many semitones.
C12_NewPointerNearest ==
    [][\A id \in PointerIds :
          (/\ IndexOf(touchesRef, id) = 0
           /\ IndexOf(touchesRef', id) # 0
           /\ TouchOf(touchesRef', id).rawSemitones # Sentinel)
          => LET d == TouchOf(touchesRef', id) IN
             /\ d.rawSemitones + d.startOffset = Round(d.rawSemitones)
             /\ d.freq = calculateFreqFromSemitones(d.stringIndex,
                                                    Round(d.rawSemitones))]_vars

\* The identifiers of the map other than the mouse's.
TouchIdsIn(ts) == {ts[n].touchId : n \in 1..Len(ts)} \ {MOUSE_ID}

\* C11: after a touch event is handled with the menu closed, the identifiers
\* of the map other than the mouse's are exactly the identifiers of
\* e.touches: every pointer whose identifier is not in the event is deleted,
\* every touch of the event has the pointer that processInput creates or
\* updates from its sample, and the mouse pointer is neither created nor
\* removed nor changed.
C11_MapFollowsBatch ==
    [][\A batch \in TwoTouchBatches :
          (~isMenuOpen /\ handleNativeTouchOf(batch))
          => /\ TouchIdsIn(touchesRef') = DOMAIN batch
             /\ \A id \in DOMAIN batch :
                   TouchOf(touchesRef', id)
                     = TouchOf(processInput(touchesRef, id, batch[id][1],
                                            batch[id][2], now).touches, id)
             /\ (IndexOf(touchesRef', MOUSE_ID) # 0) = (IndexOf(touchesRef, MOUSE_ID) # 0)
             /\ IndexOf(touchesRef, MOUSE_ID) # 0
                   => TouchOf(touchesRef', MOUSE_ID) = TouchOf(touchesRef, MOUSE_ID)]_vars

\* C11 happens: the mouse has been pressed since time 0, finger 2 has been on
\* the surface since time 0 and was updated by a later event, and the
\* map holds no pointer of finger 1.
C11_Witness ==
    /\ now > 0
    /\ ~isMenuOpen
    /\ IndexOf(touchesRef, MOUSE_ID) # 0
    /\ TouchOf(touchesRef, MOUSE_ID).lastMove = 0
    /\ TouchIdsIn(touchesRef) = {2}
    /\ TouchOf(touchesRef, 2).lastMove = now
    /\ \E c \in contacts : c[1] = 2 /\ c[3] = 0
    /\ Len(touchesRef) = 2 /\ touchesRef[1].touchId = 2

\* The pointer processInput creates from a first sample.
Created(id, clientX, clientY, t) ==
    TouchOf(processInput(<<>>, id, clientX, clientY, t).touches, id)

OnSemitone(freq) == freq[2] % SemiUnit = 0

\* C13: when the frame callback runs with the menu closed, every finger that
\* has been at its position for more than TUNE_DELAY ms, right of the nut
\* zone, has after the callback a pointer that is marked tuned and whose
\* frequency is on a whole semitone, whatever the other fingers did in the
\* meantime; and a pointer that was marked tuned keeps its frequency and its
\* offset.  (Which whole semitone the frequency is snapped to is the
\* subject of C12.)
C13_StillFingerSettles ==
    [][\A c \in contacts :
          (/\ lastTick'.ran
           /\ IndexOf(touchesRef, c[1]) # 0
           /\ TouchOf(touchesRef, c[1]).rawSemitones # Sentinel
           /\ now - c[3] > TUNE_DELAY)
          => /\ IndexOf(touchesRef', c[1]) # 0
             /\ TouchOf(touchesRef', c[1]).isTuned
             /\ OnSemitone(TouchOf(touchesRef', c[1]).freq)
             /\ TouchOf(touchesRef, c[1]).isTuned
                   => /\ TouchOf(touchesRef', c[1]).freq = TouchOf(touchesRef, c[1]).freq
                      /\ TouchOf(touchesRef', c[1]).startOffset
                            = TouchOf(touchesRef, c[1]).startOffset]_vars

(***************************************************************************)
(* Properties of the resolver and the registry together.                   *)
(***************************************************************************)
\* C20: after every tick of the resolver on an initialized engine with the
\* menu closed, the keys that isNotePlaying reports, the keys the resolver
\* tracks in activeNoteIdsRef and the keys of the tick's demand are the
\* same set.
C20_PlayingIsTrackedIsWanted ==
    (lastTick.ran /\ ctx /\ ~isMenuOpen)
    => /\ {noteId \in Keys : Playing(noteId)} = DOMAIN activeNoteIdsRef
       /\ DOMAIN activeNoteIdsRef = DOMAIN lastTick.wanted

\* C20 happens: a tick in monophonic mode has just put the voice of a touch
\* key into release and started the voice of the string.
C20_Witness ==
    /\ lastTick.ran /\ ctx /\ ~isMenuOpen
    /\ isMonophonic
    /\ \E id \in PointerIds : Releasing(TouchKey(id))
    /\ \E i \in Strings : Playing(StringKey(i)) /\ StringKey(i) \in DOMAIN lastTick.wanted

(***************************************************************************)
(* The three cases of step 3 of the resolver for a key that is tracked.    *)
(***************************************************************************)
\* The winner of a wanted key of the tick that has just run, as the tick
\* read it from the pointer map.
WinnerOf(k) == TouchOf(touchesRef, lastTick'.wanted[k])

\* The key was tracked when the tick began and the tick wanted it.
TrackedAndWanted(k) ==
    /\ lastTick'.ran
    /\ k \in DOMAIN lastTick'.wanted
    /\ k \in DOMAIN activeNoteIdsRef

SameBinding(k) ==
    /\ activeNoteIdsRef[k].touchId = WinnerOf(k).touchId
    /\ activeNoteIdsRef[k].stringIndex = WinnerOf(k).stringIndex

\* C21: at a tick, a wanted key that is tracked under another pointer id or
\* another string than its winner gets startNote with the winner's frequency
\* (which kills the voice the key holds and registers a fresh one) and no
\* updateNotePitch, and its tracked entry becomes the winner's pointer id,
\* string and frequency.
C21_Takeover ==
    [][\A k \in Keys :
          TrackedAndWanted(k) /\ ~SameBinding(k) =>
              /\ <<"start", k, WinnerOf(k).freq>> \in lastCmds'
              /\ ~Called(lastCmds', "update", k)
              /\ activeNoteIdsRef'[k] = Tracked(WinnerOf(k))
              /\ k \in DOMAIN activeNodes => Called(lastCmds', "setTimeout", k)
              /\ k \in DOMAIN activeNodes'
              /\ activeNodes'[k].baseFreq = WinnerOf(k).freq
              /\ ~activeNodes'[k].isReleasing]_vars

\* A tick has taken a tracked key with a live voice over for another string
\* in polyphonic mode, or for another pointer in monophonic mode.
C21_Witness ==
    /\ lastTick.ran
    /\ \E k \in lastTick.tracked :
          /\ Called(lastCmds, "start", k)
          /\ Called(lastCmds, "setTimeout", k)
          /\ ~Called(lastCmds, "update", k)
          /\ k \in DOMAIN activeNoteIdsRef

\* The engine commands of a command set that name the key.
CommandsFor(cmds, k) == {c \in cmds : c[2] = k}

\* C22: at a tick, a wanted key that is tracked under the pointer id and the
\* string of its winner and whose voice is playing gets one updateNotePitch
\* with the winner's frequency and nothing else when that frequency differs
\* from the tracked one by more than 0.01 Hz, and no engine command at all
\* when it does not.
C22_GlideOrNothing ==
    [][\A k \in Keys :
          TrackedAndWanted(k) /\ SameBinding(k) /\ Playing(k) =>
              IF FreqMoved(activeNoteIdsRef[k].freq, WinnerOf(k).freq)
              THEN /\ CommandsFor(lastCmds', k) = {<<"update", k, WinnerOf(k).freq>>}
                   /\ activeNoteIdsRef'[k] = Tracked(WinnerOf(k))
                   /\ activeNodes'[k].baseFreq = WinnerOf(k).freq
              ELSE /\ CommandsFor(lastCmds', k) = {}
                   /\ activeNoteIdsRef'[k] = activeNoteIdsRef[k]
                   /\ activeNodes'[k].baseFreq = activeNodes[k].baseFreq]_vars

\* A tick has glided one held key and left another held key alone.
C22_Witness ==
    /\ lastTick.ran
    /\ \E k \in lastTick.tracked :
          /\ k \in DOMAIN activeNoteIdsRef
          /\ CommandsFor(lastCmds, k) = {<<"update", k, activeNoteIdsRef[k].freq>>}
          /\ Playing(k)
    /\ \E k \in lastTick.tracked :
          /\ k \in DOMAIN lastTick.wanted
          /\ CommandsFor(lastCmds, k) = {}
          /\ Playing(k)

(***************************************************************************)
(* The settle step and the tick after it.                                  *)
(***************************************************************************)
\* The pointer the resolver would pick for the key in the current state.
CurrentWinner(k) ==
    LET wanted == WantedNotes(touchesRef, isMonophonic)
    IN wanted[CHOOSE n \in 1..Len(wanted) : wanted[n][1] = k][2]

\* The settle step has changed the frequency of the winner of a playing key
\* and the engine has not been told yet.
SettlePending(k) ==
    /\ k \in WantedKeys(WantedNotes(touchesRef, isMonophonic))
    /\ k \in DOMAIN activeNoteIdsRef
    /\ Playing(k)
    /\ activeNoteIdsRef[k].touchId = CurrentWinner(k).touchId
    /\ activeNoteIdsRef[k].stringIndex = CurrentWinner(k).stringIndex
    /\ CurrentWinner(k).isTuned
    /\ FreqMoved(activeNoteIdsRef[k].freq, CurrentWinner(k).freq)

ConnectedOf(k) == {v \in connected : v[1] = k}

\* The voice object is the registry entry of its key.
Registered(v) == v[1] \in DOMAIN activeNodes /\ NodeOf(activeNodes, v[1]) = v

\* C25 as stated: in every reachable state a key has at most one voice that
\* is connected to the signal graph.
C25_OneConnectedVoicePerKey ==
    \A k \in Keys : Cardinality(ConnectedOf(k)) <= 1

\* C25: in every reachable state every connected voice of a key is either
\* the registry entry of the key or a voice that killNoteImmediate has
\* removed from the registry and whose disconnect is pending, never both; so
\* a key has at most one connected voice that has not been killed.
C25_OneLiveVoicePerKey ==
    \A k \in Keys :
        /\ \A v \in ConnectedOf(k) : Registered(v) # (v \in killTimers)
        /\ Cardinality(ConnectedOf(k) \ killTimers) <= 1

\* startNote has just replaced a voice of its key: the new voice and the
\* killed one are both connected.
C25_Witness ==
    \E k \in Keys :
        /\ Called(lastCmds, "start", k)
        /\ Called(lastCmds, "setTimeout", k)
        /\ Cardinality(ConnectedOf(k)) = 2
        /\ Cardinality(ConnectedOf(k) \cap killTimers) = 1
        /\ Playing(k)

\* Every voice that has left the playing state has the timer that will
\* disconnect it, and only that one can: a registered releasing voice has
\* its release timer and no kill timer, a voice out of the registry that is
\* still connected has its kill timer, and a voice with a kill timer is
\* still connected.
DisconnectPending ==
    /\ killTimers \subseteq connected
    /\ \A v \in connected : Registered(v) # (v \in killTimers)
    /\ \A v \in connected :
          Registered(v) /\ activeNodes[v[1]].isReleasing => v \in releaseTimers
    /\ \A k \in DOMAIN activeNodes : NodeOf(activeNodes, k) \in connected

\* What a step disconnects: the cleanup closure of stopNote disconnects one
\* voice (the registry entry of its key, which it removes) when it finds its
\* own voice registered and nothing otherwise; the closure of
\* killNoteImmediate disconnects one voice; nothing else disconnects.
DisconnectStep ==
    \A k \in Keys :
        /\ Called(lastCmds', "cleanup", k) =>
              /\ Releasing(k)
              /\ NodeOf(activeNodes, k) \in releaseTimers \ killTimers
              /\ k \notin DOMAIN activeNodes'
              /\ Cardinality(ConnectedOf(k)') = Cardinality(ConnectedOf(k)) - 1
              /\ Cardinality(killTimers') = Cardinality(killTimers)
        /\ Called(lastCmds', "staleTimer", k) =>
              /\ Cardinality(ConnectedOf(k)') = Cardinality(ConnectedOf(k))
              /\ DOMAIN activeNodes' = DOMAIN activeNodes
        /\ Cardinality(ConnectedOf(k)') < Cardinality(ConnectedOf(k)) =>
              /\ Cardinality(ConnectedOf(k)') = Cardinality(ConnectedOf(k)) - 1
              /\ \/ Called(lastCmds', "cleanup", k)
                 \/ /\ lastCmds' = {}
                    /\ Cardinality(killTimers') = Cardinality(killTimers) - 1
                    /\ DOMAIN activeNodes' = DOMAIN activeNodes

\* C27: under every interleaving of start, stop, kill and the timers, a
\* voice that has been stopped or killed is disconnected once: by the
\* cleanup closure of its stopNote if it is still the registry entry of its
\* key when the closure runs, otherwise by the closure of the kill that
\* removed it; the pending closure is always there, and no voice is
\* disconnected by both.
C27_DisconnectedOnce == []DisconnectPending /\ [][DisconnectStep]_vars

\* The closure of a stopNote has found that its voice was killed meanwhile
\* and left the disconnect to the kill's closure, which is still pending.
C27_Witness ==
    \E k \in Keys :
        /\ Called(lastCmds, "staleTimer", k)
        /\ \E v \in killTimers : v[1] = k /\ v \in connected /\ v \notin releaseTimers

KeyOf(data) ==
    IF isMonophonic THEN StringKey(data.stringIndex) ELSE TouchKey(data.touchId)

\* C26: at a tick with the menu closed, every pointer whose state has been
\* created since the previous tick and that is the winner of its logical
\* key gets startNote for that key, also when a pointer of the same id was
\* deleted since the previous tick.
C26_NewPointerStarts ==
    [][lastTick'.ran =>
          \A id \in contacts :
              LET data == TouchOf(touchesRef, id) IN
              (KeyOf(data) \in DOMAIN lastTick'.wanted
                  /\ lastTick'.wanted[KeyOf(data)] = id)
              => Called(lastCmds', "start", KeyOf(data))]_vars

(***************************************************************************)
(* The voice: its sources and the schedules of stopNote and kill.          *)
(***************************************************************************)
\* C28: updateNotePitch(K, f) on a playing voice sets the target of every
\* oscillator of the voice to f, of the octave oscillator to 2f, both one
\* octave higher when octaveShift is on, and baseFreq to the former; the
\* voice object, its sources, the graph and the timers stay as they are and
\* nothing is scheduled.  On a releasing voice it changes nothing.
C28_UpdateRetunesOscillators ==
    [][\A k \in Keys, f \in ApiFreqs :
          <<"update", k, f>> \in lastCmds' =>
              /\ Playing(k) =>
                    LET playFreq == IF settings.octaveShift THEN Double(f) ELSE f
                        old == activeNodes[k].sources
                        new == activeNodes'[k].sources
                    IN /\ Playing(k)'
                       /\ NodeOf(activeNodes', k) = NodeOf(activeNodes, k)
                       /\ activeNodes'[k].baseFreq = playFreq
                       /\ DOMAIN new = DOMAIN old
                       /\ \A i \in DOMAIN old :
                             IF old[i].kind = "OscillatorNode"
                             THEN /\ new[i].kind = "OscillatorNode"
                                  /\ new[i].isOctave = old[i].isOctave
                                  /\ new[i].frequency =
                                        IF old[i].isOctave THEN Double(playFreq)
                                        ELSE playFreq
                             ELSE new[i] = old[i]
              /\ Releasing(k) => activeNodes' = activeNodes
              /\ lastCmds' = {<<"update", k, f>>}
              /\ UNCHANGED <<connected, releaseTimers, killTimers, settings>>
              /\ DOMAIN activeNodes' = DOMAIN activeNodes]_vars

\* updateNotePitch has just retuned a voice with sub and octave oscillator
\* under octaveShift: the octave oscillator is one octave above the others.
C28_Witness ==
    \E k \in Keys, f \in ApiFreqs :
        /\ lastCmds = {<<"update", k, f>>}
        /\ Playing(k)
        /\ settings.octaveShift
        /\ activeNodes[k].baseFreq = Double(f)
        /\ Len(activeNodes[k].sources) = 6
        /\ activeNodes[k].sources[2].frequency = Double(f)
        /\ activeNodes[k].sources[6].isOctave
        /\ activeNodes[k].sources[6].frequency = Double(Double(f))

\* The entries of a command set for one operation on one key.
Entries(cmds, op, k) == {c \in cmds : c[1] = op /\ c[2] = k}

\* C29: stopNote on a playing voice, with R = max(50 ms, release): the gain
\* ramp ends at R, every source of the voice is stopped at R + 100 ms and
\* the cleanup closure is scheduled for R + 200 ms, so the ramp ends before
\* the sources stop and the sources stop before the closure runs; the voice
\* is registered as releasing after the call, and a releasing voice leaves
\* that state only through its cleanup closure or a kill.
C29_StopSchedule ==
    [][\A k \in Keys :
          /\ (ctx /\ Playing(k) /\ Called(lastCmds', "stop", k)) =>
                LET R == IF settings.release > 50 THEN settings.release ELSE 50 IN
                /\ Entries(lastCmds', "gain.exponentialRampToValueAtTime", k)
                      = {<<"gain.exponentialRampToValueAtTime", k, <<0, R>>>>}
                /\ Entries(lastCmds', "source.stop", k)
                      = {<<"source.stop", k, <<i, R + 100>>>> :
                            i \in DOMAIN activeNodes[k].sources}
                /\ Entries(lastCmds', "window.setTimeout", k)
                      = {<<"window.setTimeout", k, <<0, R + 200>>>>}
                /\ \A r \in Entries(lastCmds', "gain.exponentialRampToValueAtTime", k),
                      s \in Entries(lastCmds', "source.stop", k),
                      t \in Entries(lastCmds', "window.setTimeout", k) :
                        r[3][2] < s[3][2] /\ s[3][2] < t[3][2]
                /\ Releasing(k)'
                /\ NodeOf(activeNodes', k) = NodeOf(activeNodes, k)
                /\ NodeOf(activeNodes', k) \in releaseTimers'
                /\ activeNodes'[k].sources = activeNodes[k].sources
          /\ (Releasing(k) /\ ~Releasing(k)') =>
                Called(lastCmds', "cleanup", k) \/ Called(lastCmds', "kill", k)]_vars

\* stopNote has just put a voice with all six sources into release with a
\* release setting below the minimum: the ramp ends at 50 ms.
C29_Witness ==
    \E k \in Keys :
        /\ Called(lastCmds, "stop", k)
        /\ Releasing(k)
        /\ settings.release < 50
        /\ Len(activeNodes[k].sources) = 6
        /\ <<"gain.exponentialRampToValueAtTime", k, <<0, 50>>>> \in lastCmds
        /\ <<"source.stop", k, <<4, 150>>>> \in lastCmds
        /\ <<"window.setTimeout", k, <<0, 250>>>> \in lastCmds

\* C30 as stated: killNoteImmediate on a registered voice removes the key
\* at once, stops all sources of the voice at 50 ms and disconnects the
\* voice at 100 ms.
C30_KillStopsAllSources ==
    [][\A k \in Keys :
          (ctx /\ k \in DOMAIN activeNodes /\ Called(lastCmds', "kill", k)) =>
              /\ ~Releasing(k)'
              /\ Entries(lastCmds', "source.stop", k)
                    = {<<"source.stop", k, <<i, 50>>>> :
                          i \in DOMAIN activeNodes[k].sources}
              /\ Entries(lastCmds', "setTimeout", k)
                    = {<<"setTimeout", k, <<0, 100>>>>}]_vars

\* C30: killNoteImmediate on a registered voice, playing or releasing,
\* removes the key from the registry in the call (the key is absent after a
\* plain kill and holds the new voice after a startNote) without marking
\* the voice as releasing, fades the gain with a time constant of 10 ms,
\* stops the oscillators of the voice at 50 ms and no other source, and
\* schedules the disconnect of the voice for 100 ms, whatever the release
\* setting is; until then the voice stays connected.
C30_KillSchedule ==
    [][\A k \in Keys :
          (ctx /\ k \in DOMAIN activeNodes /\ Called(lastCmds', "kill", k)) =>
              LET sources == activeNodes[k].sources IN
              /\ ~Releasing(k)'
              /\ ~Called(lastCmds', "start", k) => k \notin DOMAIN activeNodes'
              /\ k \in DOMAIN activeNodes' =>
                    NodeOf(activeNodes', k) # NodeOf(activeNodes, k)
              /\ NodeOf(activeNodes, k) \in killTimers' \cap connected'
              /\ Entries(lastCmds', "gain.setTargetAtTime", k)
                    = {<<"gain.setTargetAtTime", k, <<0, 10>>>>}
              /\ Entries(lastCmds', "source.stop", k)
                    = {<<"source.stop", k, <<i, 50>>>> :
                          i \in {j \in DOMAIN sources :
                                    sources[j].kind = "OscillatorNode"}}
              /\ \E i \in DOMAIN sources : sources[i].kind = "AudioBufferSourceNode"
              /\ Entries(lastCmds', "setTimeout", k)
                    = {<<"setTimeout", k, <<0, 100>>>>}
              /\ Entries(lastCmds', "window.setTimeout", k) = {}]_vars

\* killNoteImmediate has just removed a releasing voice with a looping
\* noise source: the two oscillators are stopped, the buffer sources are
\* not, and the cleanup closure of the release is still pending.
C30_Witness ==
    \E k \in Keys :
        /\ Called(lastCmds, "kill", k)
        /\ ~Called(lastCmds, "start", k)
        /\ k \notin DOMAIN activeNodes
        /\ \E v \in killTimers \cap releaseTimers \cap connected : v[1] = k
        /\ settings.release = 200
        /\ Entries(lastCmds, "source.stop", k)
              = {<<"source.stop", k, <<1, 50>>>>, <<"source.stop", k, <<2, 50>>>>}
        /\ <<"setTimeout", k, <<0, 100>>>> \in lastCmds

\* C31: stopNote on a playing voice and killNoteImmediate on a registered
\* voice call vibratoGain.disconnect for every oscillator of the voice, so
\* that no oscillator of the voice is connected to the vibrato source
\* afterwards; an oscillator that was never connected (the sub oscillator)
\* makes its call throw, the exception is caught, and the operation
\* completes: the voice is releasing with its cleanup closure scheduled,
\* or it is out of the registry with its disconnect closure scheduled.  A
\* registered releasing voice has no vibrato connection.
C31_VibratoDetached ==
    /\ [](\A k \in DOMAIN activeNodes :
              activeNodes[k].isReleasing => activeNodes[k].vibrato = {})
    /\ [][\A k \in Keys :
            LET voice == activeNodes[k]
                calls == Entries(lastCmds', "vibratoGain.disconnect", k)
                detached ==
                    /\ \A i \in Oscillators(voice) :
                          <<"vibratoGain.disconnect", k,
                            <<i, IF i \in voice.vibrato THEN 0 ELSE 1>>>> \in calls
                    /\ voice.vibrato \ {c[3][1] : c \in calls} = {}
            IN
            /\ (ctx /\ Playing(k) /\ Called(lastCmds', "stop", k)) =>
                  /\ detached
                  /\ activeNodes'[k].vibrato = {}
                  /\ Releasing(k)'
                  /\ NodeOf(activeNodes', k) \in releaseTimers'
                  /\ Called(lastCmds', "window.setTimeout", k)
            /\ (ctx /\ k \in DOMAIN activeNodes /\ Called(lastCmds', "kill", k)) =>
                  /\ detached
                  /\ ~Called(lastCmds', "start", k) => k \notin DOMAIN activeNodes'
                  /\ NodeOf(activeNodes, k) \in killTimers'
                  /\ Called(lastCmds', "setTimeout", k)]_vars

\* stopNote has just released a voice with a sub oscillator and an octave
\* oscillator: the disconnect of the sub oscillator threw and was caught,
\* the octave oscillator after it was disconnected, and the cleanup closure
\* is pending.
C31_Witness ==
    \E k \in Keys :
        /\ Called(lastCmds, "stop", k)
        /\ Releasing(k)
        /\ Len(activeNodes[k].sources) = 6
        /\ activeNodes[k].vibrato = {}
        /\ <<"vibratoGain.disconnect", k, <<2, 1>>>> \in lastCmds
        /\ <<"vibratoGain.disconnect", k, <<6, 0>>>> \in lastCmds
        /\ NodeOf(activeNodes, k) \in releaseTimers

\* killNoteImmediate has just removed a voice with a sub oscillator: the
\* caught exception did not keep the disconnect closure from being
\* scheduled.
C31_WitnessKill ==
    \E k \in Keys :
        /\ Called(lastCmds, "kill", k)
        /\ ~Called(lastCmds, "start", k)
        /\ k \notin DOMAIN activeNodes
        /\ <<"vibratoGain.disconnect", k, <<2, 1>>>> \in lastCmds
        /\ <<"vibratoGain.disconnect", k, <<1, 0>>>> \in lastCmds
        /\ <<"setTimeout", k, <<0, 100>>>> \in lastCmds

\* The pointer of an identifier in a pointer map that holds it.
PointerOf(ts, id) == ts[IndexOf(ts, id)]

\* The handler has just passed the sample <<x, y>> of a finger to processInput.
SampleOf(cmds, id, x, y) == <<"processInput", TouchKey(id), <<x, y>>>> \in cmds

\* C32: a sample at lane position p moves an existing pointer off its
\* string c only if p > c + 1.25 or p < c - 0.25, and nothing but a sample
\* changes the string of a pointer; when the string changes, the new index
\* is floor(p) clamped to [0, N-1], the quantization offset is the distance
\* from the stored raw offset up to the next whole semitone (0 for the open
\* string), the frequency is that whole semitone of the new string, and
\* the pointer is marked not quantized.
C32_StringHysteresis ==
    [][\A id \in TouchIds :
          (IndexOf(touchesRef, id) # 0 /\ IndexOf(touchesRef', id) # 0) =>
              LET old == PointerOf(touchesRef, id)
                  new == PointerOf(touchesRef', id)
                  c == old.stringIndex
              IN
              /\ (\A c1 \in lastCmds' : c1[1] # "processInput") =>
                    new.stringIndex = c
              /\ \A x \in BoardXSamples, y \in BoardYSamples :
                    SampleOf(lastCmds', id, x, y) =>
                      LET p == getRawStringPos(y, StringCount)
                          outside == \/ 4 * p.num > (4 * c + 5) * p.den
                                     \/ 4 * p.num < (4 * c - 1) * p.den
                      IN
                      /\ ~outside => new.stringIndex = c
                      /\ new.stringIndex # c =>
                            /\ outside
                            /\ new.stringIndex
                                  = Max(0, Min(StringCount - 1, Floor(p)))
                            /\ new.startOffset
                                  = IF new.rawSemitones = Sentinel THEN 0
                                    ELSE Ceil(new.rawSemitones) - new.rawSemitones
                            /\ new.freq
                                  = <<new.stringIndex,
                                      IF new.rawSemitones = Sentinel THEN 0
                                      ELSE Ceil(new.rawSemitones)>>
                            /\ new.freq[2] % SemiUnit = 0
                            /\ ~new.isTuned]_vars

\* The finger, tracked on the first string by the last tick, has just
\* been sampled 1.275 lanes down between two frets and is on the second
\* string with a fresh quantization offset.
C32_Witness ==
    \E id \in TouchIds :
        /\ SampleOf(lastCmds, id, 26, 74)
        /\ IndexOf(touchesRef, id) # 0
        /\ PointerOf(touchesRef, id).stringIndex = 1
        /\ PointerOf(touchesRef, id).startOffset > 0
        /\ ~PointerOf(touchesRef, id).isTuned
        /\ TouchKey(id) \in DOMAIN activeNoteIdsRef
        /\ activeNoteIdsRef[TouchKey(id)].stringIndex = 0

InNutZone(x) == (x - Rect.left) * 100 < NUT_WIDTH_PERCENT * Rect.width

\* C34: the stored raw offset of a pointer is the sentinel or a fretted
\* offset (never a value between the sentinel and 0); after a sample it is
\* the sentinel exactly when the sample was in the nut zone, and nothing
\* but a sample changes it.
C34_SentinelNeverBlended ==
    /\ [](\A n \in 1..Len(touchesRef) :
              \/ touchesRef[n].rawSemitones = Sentinel
              \/ touchesRef[n].rawSemitones >= 0)
    /\ [][\A id \in TouchIds :
            IndexOf(touchesRef', id) # 0 =>
                LET new == PointerOf(touchesRef', id) IN
                /\ \A x \in BoardXSamples, y \in BoardYSamples :
                      SampleOf(lastCmds', id, x, y) =>
                          (new.rawSemitones = Sentinel <=> InNutZone(x))
                /\ (\A c \in lastCmds' : c[1] # "processInput") =>
                      /\ IndexOf(touchesRef, id) # 0
                      /\ new.rawSemitones
                            = PointerOf(touchesRef, id).rawSemitones]_vars

\* The finger, tracked at a fretted pitch by the last tick, has just been
\* sampled in the nut zone: the stored offset is the sentinel itself.
C34_Witness ==
    \E id \in TouchIds :
        /\ SampleOf(lastCmds, id, 10, 60)
        /\ IndexOf(touchesRef, id) # 0
        /\ PointerOf(touchesRef, id).rawSemitones = Sentinel
        /\ TouchKey(id) \in DOMAIN activeNoteIdsRef
        /\ activeNoteIdsRef[TouchKey(id)].freq[2] > 0

\* C35: the string index of every pointer is in [0, N-1]; a new pointer
\* gets the floor of the lane position of its sample clamped to [0, N-1],
\* also for a sample above or below the playable band, and a pointer that
\* changes string gets the same clamped value.
C35_StringIndexInRange ==
    /\ [](\A n \in 1..Len(touchesRef) :
              touchesRef[n].stringIndex \in 0..(StringCount - 1))
    /\ [][\A id \in TouchIds, x \in BoardXSamples, y \in BoardYSamples :
            SampleOf(lastCmds', id, x, y) =>
                LET new == PointerOf(touchesRef', id)
                    lane == Floor(getRawStringPos(y, StringCount))
                    clampedLane == IF lane < 0 THEN 0
                                   ELSE IF lane > StringCount - 1
                                        THEN StringCount - 1 ELSE lane
                IN \/ new.stringIndex = clampedLane
                   \/ /\ IndexOf(touchesRef, id) # 0
                      /\ new.stringIndex
                            = PointerOf(touchesRef, id).stringIndex]_vars

\* A finger has just landed below the playable band, in lane 7 of 6, and
\* is on the last string; no tick has seen it yet.
C35_Witness ==
    \E id \in TouchIds :
        /\ SampleOf(lastCmds, id, 26, 230)
        /\ Floor(getRawStringPos(230, StringCount)) = 7
        /\ IndexOf(touchesRef, id) # 0
        /\ PointerOf(touchesRef, id).stringIndex = StringCount - 1
        /\ activeNoteIdsRef = <<>>

\* A finger has just landed above the playable band, in lane -1, and is
\* on the first string.
C35_WitnessAbove ==
    \E id \in TouchIds :
        /\ SampleOf(lastCmds, id, 26, 20)
        /\ Floor(getRawStringPos(20, StringCount)) = -1
        /\ IndexOf(touchesRef, id) # 0
        /\ PointerOf(touchesRef, id).stringIndex = 0
        /\ activeNoteIdsRef = <<>>

C36_WitnessEdge ==
    \E id \in TouchIds :
        /\ SampleOf(lastCmds, id, 24, 60)
        /\ IndexOf(touchesRef, id) # 0
        /\ PointerOf(touchesRef, id).rawSemitones = 0
        /\ PointerOf(touchesRef, id).startOffset = 0
        /\ PointerOf(touchesRef, id).freq = <<0, 0>>

\* The raw force as the priority list words it: a force passed as a number
\* (the mouse default 0.8), else the explicit force, else the vendor force
\* capped at 1, else the reported contact radius (the mean of the two axes,
\* of the one axis if only one is reported) mapped from 8..40 px onto
\* [0.3, 1.0], else 0.8.
StatedRawForce(input) ==
    IF "number" \in DOMAIN input THEN (input.number * RawUnit) \div 1000
    ELSE IF input.force # Undefined /\ input.force > 0
         THEN (input.force * RawUnit) \div 1000
    ELSE IF input.webkitForce # Undefined /\ input.webkitForce > 0
         THEN (Min(input.webkitForce, 1000) * RawUnit) \div 1000
    ELSE IF input.radiusX # Undefined \/ input.webkitRadiusX # Undefined
         THEN LET rX == IF input.radiusX # Undefined THEN input.radiusX
                        ELSE input.webkitRadiusX
                  rY == IF input.radiusY # Undefined THEN input.radiusY
                        ELSE IF input.webkitRadiusY # Undefined
                             THEN input.webkitRadiusY ELSE rX
              IN RadiusForce(rX, rY)
    ELSE (MouseForce * RawUnit) \div 1000

\* The velocities just computed, as <<input, sensitivity, velocity>>.
Estimates ==
    {<<c[2][1], c[2][2], c[3]>> : c \in {d \in lastCmds : d[1] = "estimateVelocity"}}

\* C37 as stated: the velocity of a new pointer is
\* clamp(raw * sensitivity + (1 - sensitivity), 0.4, 1.0) with raw chosen
\* by the priority list: explicit force, else vendor force capped at 1,
\* else contact radius mapped from 8..40 px onto [0.3, 1.0], else 0.8.
C37_VelocityAsStated ==
    \A e \in Estimates :
        e[3] = Max(400 * RawUnit,
                   Min(1000 * RawUnit,
                       StatedRawForce(e[1]) * e[2] + (1000 - e[2]) * RawUnit))

\* The part of C37 that holds: every velocity is in [0.4, 1.0], and it is
\* the clamped blend of the raw force the code computes; for a touch with
\* a force, a vendor force or a positive radius on both axes, and for the
\* mouse, that raw force is the one the priority list gives.
C37_VelocityInRange ==
    \A e \in Estimates :
        /\ 400 * RawUnit <= e[3] /\ e[3] <= 1000 * RawUnit
        /\ e[3] = Max(400 * RawUnit,
                      Min(1000 * RawUnit,
                          rawForce(e[1]) * e[2] + (1000 - e[2]) * RawUnit))
        /\ (\/ "number" \in DOMAIN e[1]
            \/ e[1].force > 0
            \/ e[1].webkitForce > 0
            \/ e[1].radiusX > 0 /\ e[1].radiusY > 0) =>
               rawForce(e[1]) = StatedRawForce(e[1])

\* A touch that reports force 0 and radius 0 on both axes at full
\* sensitivity: the velocity is 29/64 = 0.453125, the value of a 15 px
\* contact.
C37_ZeroRadius ==
    \E e \in Estimates :
        /\ e[1] = [force |-> 0, webkitForce |-> Undefined, radiusX |-> 0,
                   radiusY |-> 0, webkitRadiusX |-> Undefined,
                   webkitRadiusY |-> Undefined]
        /\ e[2] = 1000
        /\ e[3] * 64 = 29 * 1000 * RawUnit

\* A touch with no force and no radius field at full sensitivity: the
\* velocity is 1.0.
C37_NoSignal ==
    \E e \in Estimates :
        /\ e[1] = [force |-> Undefined, webkitForce |-> Undefined,
                   radiusX |-> Undefined, radiusY |-> Undefined,
                   webkitRadiusX |-> Undefined, webkitRadiusY |-> Undefined]
        /\ e[2] = 1000
        /\ e[3] = 1000 * RawUnit

\* C38: the pointer map holds a pointer of the mouse exactly while
\* isMouseDownRef is set, and never more than one; so no event that
\* arrives while the flag is clear and leaves it clear, a mouse move
\* among them, puts a pointer of the mouse into the map.
C38_MousePointerIffDown ==
    /\ (\E n \in 1..Len(touchesRef) : touchesRef[n].touchId = MOUSE_ID)
          <=> isMouseDownRef
    /\ \A m, n \in 1..Len(touchesRef) :
          (touchesRef[m].touchId = MOUSE_ID /\ touchesRef[n].touchId = MOUSE_ID)
              => m = n

\* The mouse is pressed on the board while a finger is down and the menu
\* has been opened: both pointers are in the map.
C38_Witness ==
    /\ isMouseDownRef
    /\ isMenuOpen
    /\ IndexOf(touchesRef, MOUSE_ID) # 0
    /\ \E id \in TouchIds : IndexOf(touchesRef, id) # 0

\* The mouse has been released after a tick tracked its note: the flag is
\* clear and its pointer is gone.
C38_WitnessReleased ==
    /\ ~isMouseDownRef
    /\ IndexOf(touchesRef, MOUSE_ID) = 0
    /\ \E k \in DOMAIN activeNoteIdsRef : activeNoteIdsRef[k].touchId = MOUSE_ID

\* C39: every target updateSettings sets on the gain of the feedback path
\* of the delay is at most 0.9.
C39_FeedbackAtMost90 ==
    \A c \in lastCmds :
        c[1] = "delayFeedbackNode.gain.setTargetAtTime" => c[3][1] <= 90

\* updateSettings has just set the feedback gain to the value it was
\* given, 1.2.
C39_FeedbackPassedThrough ==
    /\ settings.delayFeedback = 120
    /\ <<"delayFeedbackNode.gain.setTargetAtTime", NoKey, <<120, 100>>>> \in lastCmds

====
